---- MODULE Spec2Model ----
(***************************************************************************)
(* Notebook Navigator: the in-memory file cache (MemoryFileCache.ts) that  *)
(* mirrors the IndexedDB store, and the tag tree built from it             *)
(* (tagTree.ts) with its memoized note counts.                             *)
(*                                                                         *)
(* JavaScript values are modelled as follows.  Objects live in a heap and  *)
(* are named by references, so that two map entries holding the same       *)
(* object are distinguishable from two entries holding equal objects.  A   *)
(* Map is a sequence of entries in insertion order.  Strings that the code *)
(* takes apart (tags) are sequences of one-character strings.              *)
(***************************************************************************)
EXTENDS Integers, Sequences, FiniteSets, TLC

VARIABLES
    heap,       \* reference -> FileData object (fields preview, featureImage, metadata, tags)
    cache,      \* the MemoryFileCache instance: [memoryMap, isInitialized]
    store,      \* the persistent store: key (path) -> reference of the stored record
    lastWrite,  \* history: per path, what the most recent whole-record write left there
    tagTree,        \* the result of the last buildTagTreeFromDatabase, with its node objects
    oldTagTree,     \* the result of the build before it, still held by a consumer
    noteCountCache, \* the module-level WeakMap of tagTree.ts, or null
    matched,    \* the last call of matchesTagPattern: its arguments and what it returned
    filtered,   \* the last call of filterTagTree or excludeFromTagTree, likewise
    foundNode,  \* the last call of findTagNode, likewise
    hub,        \* the change notification hub: its subscribers and the dispatch under way
    items,      \* the FileItem components: what each shows of its file
    lastOp      \* history: the operation that produced this state, with its arguments

vars == <<heap, cache, store, lastWrite, tagTree, oldTagTree, noteCountCache,
          matched, filtered, foundNode, hub, items, lastOp>>

\* What the methods of the cache leave alone, and what the tag tree functions leave alone.
outsideCache == <<tagTree, oldTagTree, noteCountCache, matched, filtered, foundNode, hub, items>>
outsideTagTree == <<heap, cache, store, lastWrite, matched, filtered, foundNode, hub, items>>

\* Before any call of the pattern functions.
NoCall == [called |-> FALSE]

\* ---------------------------------------------------------------------------
\* JavaScript values
\* ---------------------------------------------------------------------------
Null == "<null>"
Undefined == "<undefined>"

\* A tags field: null (not extracted yet) or an array of tag strings.
NullTags == [isNull |-> TRUE, list |-> <<>>]
TagList(l) == [isNull |-> FALSE, list |-> l]

\* The hub with no subscriber and nothing dispatched; the components before any is mounted.
NoChanges == [field \in {} |-> Null]
NewHub == [subscribers |-> {}, issued |-> 0, disposed |-> {},
           path |-> "-", changes |-> NoChanges, targets |-> {}, queue |-> <<>>, delivered |-> <<>>]
Items == {"i1", "i2"}
Unmounted == [mounted |-> FALSE, path |-> "-", unsubscribe |-> 0,
              previewText |-> "", featureImageUrl |-> Null, tags |-> <<>>]
NoItems == [item \in Items |-> Unmounted]

\* File paths used as keys.
Paths == {"a.md", "x/b.md"}


\* ---------------------------------------------------------------------------
\* Map<K, V>: entries [key, value] in insertion order
\* ---------------------------------------------------------------------------
MapHas(m, key) == \E i \in 1..Len(m) : m[i].key = key

MapIndex(m, key) == CHOOSE i \in 1..Len(m) : m[i].key = key

MapGet(m, key) == IF MapHas(m, key) THEN m[MapIndex(m, key)].value ELSE Undefined

MapSet(m, key, value) ==
    IF MapHas(m, key)
    THEN [m EXCEPT ![MapIndex(m, key)].value = value]
    ELSE Append(m, [key |-> key, value |-> value])

MapDelete(m, key) == SelectSeq(m, LAMBDA e : e.key # key)

MapKeys(m) == {m[i].key : i \in 1..Len(m)}

MapValues(m) == [i \in 1..Len(m) |-> m[i].value]

\* Every object reference is truthy; undefined and null are falsy.
Truthy(v) == v # Undefined /\ v # Null

\* ---------------------------------------------------------------------------
\* MemoryFileCache
\* ---------------------------------------------------------------------------
NewCache == [memoryMap |-> <<>>, isInitialized |-> FALSE]

RECURSIVE SetEach(_, _)
SetEach(m, entries) ==
    IF entries = <<>> THEN m
    ELSE SetEach(MapSet(m, Head(entries).path, Head(entries).data), Tail(entries))

initialize_keepsOld(c, filesWithPaths) ==
    [memoryMap |-> SetEach(c.memoryMap, filesWithPaths), isInitialized |-> TRUE]

initialize(c, filesWithPaths) ==
    [memoryMap |-> SetEach(<<>>, filesWithPaths), isInitialized |-> TRUE]

getFile_undefined(c, path) == MapGet(c.memoryMap, path)

getFile(c, path) ==
    IF Truthy(MapGet(c.memoryMap, path)) THEN MapGet(c.memoryMap, path) ELSE Null

RECURSIVE getFiles(_, _)
getFiles(c, paths) ==
    IF paths = <<>> THEN <<>>
    ELSE LET rest == getFiles(c, SubSeq(paths, 1, Len(paths) - 1))
             path == paths[Len(paths)]
             file == MapGet(c.memoryMap, path)
         IN  IF Truthy(file) THEN MapSet(rest, path, file) ELSE rest

hasPreview(h, c, path) ==
    LET file == MapGet(c.memoryMap, path)
    IN  IF file = Undefined THEN FALSE ELSE Truthy(h[file].preview)

hasFile(c, path) == MapHas(c.memoryMap, path)

getAllFiles(c) == MapValues(c.memoryMap)

getAllFilesWithPaths(c) ==
    [i \in 1..Len(c.memoryMap) |->
        [path |-> c.memoryMap[i].key, data |-> c.memoryMap[i].value]]

updateFile_keepsFirst(c, path, data) ==
    IF MapHas(c.memoryMap, path) THEN c ELSE [c EXCEPT !.memoryMap = MapSet(@, path, data)]

updateFile(c, path, data) == [c EXCEPT !.memoryMap = MapSet(@, path, data)]

\* a patch field is applied only when it is truthy: an explicit null is dropped
updateFileContent_truthy(h, c, path, updates) ==
    LET existing == MapGet(c.memoryMap, path)
    IN  IF Truthy(existing)
        THEN [h EXCEPT ![existing] =
                [preview      |-> IF Truthy(updates.preview)
                                  THEN updates.preview ELSE @.preview,
                 featureImage |-> IF Truthy(updates.featureImage)
                                  THEN updates.featureImage ELSE @.featureImage,
                 metadata     |-> IF Truthy(updates.metadata)
                                  THEN updates.metadata ELSE @.metadata,
                 tags         |-> @.tags]]
        ELSE h

\* Returns the heap after the call: the object stored at path is changed in place.
updateFileContent(h, c, path, updates) ==
    LET existing == MapGet(c.memoryMap, path)
    IN  IF Truthy(existing)
        THEN [h EXCEPT ![existing] =
                [preview      |-> IF updates.preview # Undefined
                                  THEN updates.preview ELSE @.preview,
                 featureImage |-> IF updates.featureImage # Undefined
                                  THEN updates.featureImage ELSE @.featureImage,
                 metadata     |-> IF updates.metadata # Undefined
                                  THEN updates.metadata ELSE @.metadata,
                 tags         |-> @.tags]]
        ELSE h

deleteFile_first(c, path) ==
    [c EXCEPT !.memoryMap = IF MapHas(@, path) THEN Tail(@) ELSE @]

deleteFile_noop(c, path) == c

deleteFile(c, path) == [c EXCEPT !.memoryMap = MapDelete(@, path)]

\* the entries are written from the last to the first
batchUpdate_backwards(c, updates) ==
    [c EXCEPT !.memoryMap =
        SetEach(@, [i \in 1..Len(updates) |-> updates[Len(updates) + 1 - i]])]

batchUpdate(c, updates) == [c EXCEPT !.memoryMap = SetEach(@, updates)]

RECURSIVE batchUpdateFileContent(_, _, _)
batchUpdateFileContent(h, c, updates) ==
    IF updates = <<>> THEN h
    ELSE batchUpdateFileContent(
            updateFileContent(h, c, Head(updates).path, Head(updates)), c, Tail(updates))

ClearOne(file, type) ==
    [preview      |-> IF type = "all" \/ type = "preview" THEN Null ELSE file.preview,
     featureImage |-> IF type = "all" \/ type = "featureImage" THEN Null ELSE file.featureImage,
     metadata     |-> IF type = "all" \/ type = "metadata" THEN Null ELSE file.metadata,
     tags         |-> file.tags]

\* every content field is cleared whatever the type
clearAllFileContent_all(h, c, type) ==
    LET held == {c.memoryMap[i].value : i \in 1..Len(c.memoryMap)}
    IN  [r \in DOMAIN h |-> IF r \in held THEN ClearOne(h[r], "all") ELSE h[r]]

\* Returns the heap after the call: every object held by the map is changed in place.
clearAllFileContent(h, c, type) ==
    LET held == {c.memoryMap[i].value : i \in 1..Len(c.memoryMap)}
    IN  [r \in DOMAIN h |-> IF r \in held THEN ClearOne(h[r], type) ELSE h[r]]

isReady(c) == c.isInitialized

clear_keepsReady(c) == [c EXCEPT !.memoryMap = <<>>]

clear(c) == [memoryMap |-> <<>>, isInitialized |-> FALSE]

\* ---------------------------------------------------------------------------
\* Strings the tag tree takes apart: sequences of one-character strings
\* ---------------------------------------------------------------------------
UpperCase == <<"A", "B", "C", "D", "E", "F", "G", "H", "I", "J", "K", "L", "M",
               "N", "O", "P", "Q", "R", "S", "T", "U", "V", "W", "X", "Y", "Z">>
LowerCase == <<"a", "b", "c", "d", "e", "f", "g", "h", "i", "j", "k", "l", "m",
               "n", "o", "p", "q", "r", "s", "t", "u", "v", "w", "x", "y", "z">>

LowerChar(ch) ==
    IF \E i \in 1..Len(UpperCase) : UpperCase[i] = ch
    THEN LowerCase[CHOOSE i \in 1..Len(UpperCase) : UpperCase[i] = ch]
    ELSE ch

\* letter case is kept
toLowerCase_asIs(str) == str

toLowerCase(str) == [i \in 1..Len(str) |-> LowerChar(str[i])]

startsWith(str, ch) == Len(str) > 0 /\ str[1] = ch

RECURSIVE split(_, _)
split(str, sep) ==
    IF \A i \in 1..Len(str) : str[i] # sep THEN <<str>>
    ELSE LET i == CHOOSE k \in 1..Len(str) : str[k] = sep /\ \A j \in 1..(k - 1) : str[j] # sep
         IN  <<SubSeq(str, 1, i - 1)>> \o split(SubSeq(str, i + 1, Len(str)), sep)

RECURSIVE join(_, _)
join(parts, sep) ==
    IF parts = <<>> THEN <<>>
    ELSE IF Len(parts) = 1 THEN parts[1]
    ELSE parts[1] \o <<sep>> \o join(Tail(parts), sep)

\* ---------------------------------------------------------------------------
\* tagTree.ts: the note count cache
\* ---------------------------------------------------------------------------
\* A WeakMap: a set of [key, value] entries with one entry per key, no order.
WeakMapHas(m, key) == \E e \in m : e.key = key

WeakMapGet(m, key) == (CHOOSE e \in m : e.key = key).value

WeakMapSet(m, key, value) == {e \in m : e.key # key} \cup {[key |-> key, value |-> value]}

\* Entries whose key object is no longer reachable are dropped by the collector.
WeakMapCollect(m, id) == {e \in m : e.key[1] # id}

NullNoteCountCache == [isNull |-> TRUE, map |-> {}]

clearNoteCountCache(c) == NullNoteCountCache

getNoteCountCache(c) == IF c.isNull THEN [isNull |-> FALSE, map |-> {}] ELSE c

\* ---------------------------------------------------------------------------
\* tagTree.ts: buildTagTreeFromDatabase
\* ---------------------------------------------------------------------------
\* The optional excludedFolderPatterns argument.
NoPatterns == [given |-> FALSE, patterns |-> <<>>]
FolderPatterns(l) == [given |-> TRUE, patterns |-> l]

ParentFolder(path) == IF path = "x/b.md" THEN "x" ELSE "/"

isPathInExcludedFolder(path, patterns) ==
    \E i \in 1..Len(patterns) : patterns[i] = ParentFolder(path)

\* db.getAllFiles(): the records of the cache with their paths, in the cache's order.
dbGetAllFiles(c) == getAllFilesWithPaths(c)

NewNode(part, currentPath) ==
    [name |-> part, path |-> currentPath, children |-> <<>>, notesWithTag |-> {}]

\* the untagged count starts at one
NewBuild_countsFromOne == [allNodes |-> <<>>, tree |-> <<>>, untaggedCount |-> 1, caseMap |-> <<>>]

\* The locals of a build: allNodes holds the node objects, which tree and the
\* children maps refer to by their key in allNodes.
NewBuild == [allNodes |-> <<>>, tree |-> <<>>, untaggedCount |-> 0, caseMap |-> <<>>]

\* the file is added to the node of every prefix of the tag, not only the last
RECURSIVE AddParts_everyPrefix(_, _, _, _, _)
AddParts_everyPrefix(b, parts, i, previousPath, path) ==
    IF i > Len(parts) THEN b
    ELSE
        LET part == parts[i]
            currentPath == IF i = 1 THEN part ELSE previousPath \o <<"/">> \o part
            lowerCurrentPath == toLowerCase(currentPath)
            created ==
                IF MapHas(b.allNodes, lowerCurrentPath) THEN b
                ELSE [b EXCEPT
                        !.allNodes = MapSet(@, lowerCurrentPath, NewNode(part, currentPath)),
                        !.tree = IF i = 1 THEN MapSet(@, lowerCurrentPath, lowerCurrentPath)
                                 ELSE @]
            node == MapGet(created.allNodes, lowerCurrentPath)
            attached ==
                [created EXCEPT !.allNodes =
                    MapSet(@, lowerCurrentPath, [node EXCEPT !.notesWithTag = @ \cup {path}])]
            parentPath == toLowerCase(join(SubSeq(parts, 1, i - 1), "/"))
            linked ==
                IF i > 1 /\ MapHas(attached.allNodes, parentPath)
                THEN LET parent == MapGet(attached.allNodes, parentPath)
                     IN  IF MapHas(parent.children, lowerCurrentPath) THEN attached
                         ELSE [attached EXCEPT !.allNodes =
                                MapSet(@, parentPath,
                                       [parent EXCEPT !.children =
                                            MapSet(@, lowerCurrentPath, lowerCurrentPath)])]
                ELSE attached
        IN  AddParts_everyPrefix(linked, parts, i + 1, currentPath, path)

\* a node met again takes the name and path of the later occurrence
RECURSIVE AddParts_lastCasing(_, _, _, _, _)
AddParts_lastCasing(b, parts, i, previousPath, path) ==
    IF i > Len(parts) THEN b
    ELSE
        LET part == parts[i]
            currentPath == IF i = 1 THEN part ELSE previousPath \o <<"/">> \o part
            lowerCurrentPath == toLowerCase(currentPath)
            created ==
                IF MapHas(b.allNodes, lowerCurrentPath)
                THEN [b EXCEPT !.allNodes =
                        MapSet(@, lowerCurrentPath,
                               [MapGet(b.allNodes, lowerCurrentPath) EXCEPT
                                    !.name = part, !.path = currentPath])]
                ELSE [b EXCEPT
                        !.allNodes = MapSet(@, lowerCurrentPath, NewNode(part, currentPath)),
                        !.tree = IF i = 1 THEN MapSet(@, lowerCurrentPath, lowerCurrentPath)
                                 ELSE @]
            node == MapGet(created.allNodes, lowerCurrentPath)
            attached ==
                IF i = Len(parts)
                THEN [created EXCEPT !.allNodes =
                        MapSet(@, lowerCurrentPath,
                               [node EXCEPT !.notesWithTag = @ \cup {path}])]
                ELSE created
            parentPath == toLowerCase(join(SubSeq(parts, 1, i - 1), "/"))
            linked ==
                IF i > 1 /\ MapHas(attached.allNodes, parentPath)
                THEN LET parent == MapGet(attached.allNodes, parentPath)
                     IN  IF MapHas(parent.children, lowerCurrentPath) THEN attached
                         ELSE [attached EXCEPT !.allNodes =
                                MapSet(@, parentPath,
                                       [parent EXCEPT !.children =
                                            MapSet(@, lowerCurrentPath, lowerCurrentPath)])]
                ELSE attached
        IN  AddParts_lastCasing(linked, parts, i + 1, currentPath, path)

\* every node created is entered into the tree map, whatever its depth
RECURSIVE AddParts_allRoots(_, _, _, _, _)
AddParts_allRoots(b, parts, i, previousPath, path) ==
    IF i > Len(parts) THEN b
    ELSE
        LET part == parts[i]
            currentPath == IF i = 1 THEN part ELSE previousPath \o <<"/">> \o part
            lowerCurrentPath == toLowerCase(currentPath)
            created ==
                IF MapHas(b.allNodes, lowerCurrentPath) THEN b
                ELSE [b EXCEPT
                        !.allNodes = MapSet(@, lowerCurrentPath, NewNode(part, currentPath)),
                        !.tree = MapSet(@, lowerCurrentPath, lowerCurrentPath)]
            node == MapGet(created.allNodes, lowerCurrentPath)
            attached ==
                IF i = Len(parts)
                THEN [created EXCEPT !.allNodes =
                        MapSet(@, lowerCurrentPath,
                               [node EXCEPT !.notesWithTag = @ \cup {path}])]
                ELSE created
            parentPath == toLowerCase(join(SubSeq(parts, 1, i - 1), "/"))
            linked ==
                IF i > 1 /\ MapHas(attached.allNodes, parentPath)
                THEN LET parent == MapGet(attached.allNodes, parentPath)
                     IN  IF MapHas(parent.children, lowerCurrentPath) THEN attached
                         ELSE [attached EXCEPT !.allNodes =
                                MapSet(@, parentPath,
                                       [parent EXCEPT !.children =
                                            MapSet(@, lowerCurrentPath, lowerCurrentPath)])]
                ELSE attached
        IN  AddParts_allRoots(linked, parts, i + 1, currentPath, path)

\* The loop over the parts of one tag, from part i on.
RECURSIVE AddParts(_, _, _, _, _)
AddParts(b, parts, i, previousPath, path) ==
    IF i > Len(parts) THEN b
    ELSE
        LET part == parts[i]
            currentPath == IF i = 1 THEN part ELSE previousPath \o <<"/">> \o part
            lowerCurrentPath == toLowerCase(currentPath)
            created ==
                IF MapHas(b.allNodes, lowerCurrentPath) THEN b
                ELSE [b EXCEPT
                        !.allNodes = MapSet(@, lowerCurrentPath, NewNode(part, currentPath)),
                        !.tree = IF i = 1 THEN MapSet(@, lowerCurrentPath, lowerCurrentPath)
                                 ELSE @]
            node == MapGet(created.allNodes, lowerCurrentPath)
            attached ==
                IF i = Len(parts)
                THEN [created EXCEPT !.allNodes =
                        MapSet(@, lowerCurrentPath,
                               [node EXCEPT !.notesWithTag = @ \cup {path}])]
                ELSE created
            parentPath == toLowerCase(join(SubSeq(parts, 1, i - 1), "/"))
            linked ==
                IF i > 1 /\ MapHas(attached.allNodes, parentPath)
                THEN LET parent == MapGet(attached.allNodes, parentPath)
                     IN  IF MapHas(parent.children, lowerCurrentPath) THEN attached
                         ELSE [attached EXCEPT !.allNodes =
                                MapSet(@, parentPath,
                                       [parent EXCEPT !.children =
                                            MapSet(@, lowerCurrentPath, lowerCurrentPath)])]
                ELSE attached
        IN  AddParts(linked, parts, i + 1, currentPath, path)

\* The body of the loop over the tags of one file.
AddTag(b, tag, path) ==
    LET tagPath == IF startsWith(tag, "#") THEN Tail(tag) ELSE tag
        lowerPath == toLowerCase(tagPath)
        seen == MapHas(b.caseMap, lowerPath) /\ MapGet(b.caseMap, lowerPath) # <<>>
        canonicalPath == IF seen THEN MapGet(b.caseMap, lowerPath) ELSE tagPath
        noted == IF seen THEN b ELSE [b EXCEPT !.caseMap = MapSet(@, lowerPath, tagPath)]
    IN  AddParts(noted, split(canonicalPath, "/"), 1, <<>>, path)

RECURSIVE AddTags(_, _, _)
AddTags(b, tags, path) ==
    IF tags = <<>> THEN b ELSE AddTags(AddTag(b, Head(tags), path), Tail(tags), path)

\* a record whose tags are not extracted yet is counted as untagged too
AddFile_countsNull(h, b, file, excludedFolderPatterns) ==
    LET tags == h[file.data].tags
    IN  IF /\ excludedFolderPatterns.given
           /\ isPathInExcludedFolder(file.path, excludedFolderPatterns.patterns)
        THEN b
        ELSE IF tags.isNull \/ Len(tags.list) = 0
        THEN [b EXCEPT !.untaggedCount = @ + 1]
        ELSE AddTags(b, tags.list, file.path)

\* the excluded folder patterns are not looked at
AddFile_scansExcluded(h, b, file, excludedFolderPatterns) ==
    LET tags == h[file.data].tags
    IN  IF tags.isNull \/ Len(tags.list) = 0
        THEN IF ~tags.isNull THEN [b EXCEPT !.untaggedCount = @ + 1] ELSE b
        ELSE AddTags(b, tags.list, file.path)

\* The body of the loop over the files.
AddFile(h, b, file, excludedFolderPatterns) ==
    LET tags == h[file.data].tags
    IN  IF /\ excludedFolderPatterns.given
           /\ isPathInExcludedFolder(file.path, excludedFolderPatterns.patterns)
        THEN b
        ELSE IF tags.isNull \/ Len(tags.list) = 0
        THEN IF ~tags.isNull THEN [b EXCEPT !.untaggedCount = @ + 1] ELSE b
        ELSE AddTags(b, tags.list, file.path)

RECURSIVE AddFiles(_, _, _, _)
AddFiles(h, b, allFiles, excludedFolderPatterns) ==
    IF allFiles = <<>> THEN b
    ELSE AddFiles(h, AddFile(h, b, Head(allFiles), excludedFolderPatterns),
                  Tail(allFiles), excludedFolderPatterns)

\* The returned { tree, untagged }, with the node objects the tree refers to.
buildTagTreeFromDatabase(h, db, excludedFolderPatterns) ==
    LET b == AddFiles(h, NewBuild, dbGetAllFiles(db), excludedFolderPatterns)
    IN  [tree |-> b.tree, untagged |-> b.untaggedCount, nodes |-> b.allNodes]

\* A build result as held by its consumers: id tells the node objects of one
\* build from those of another.
NoTagTree == [id |-> 0, tree |-> <<>>, untagged |-> 0, nodes |-> <<>>]

NodeOf(t, node) == MapGet(t.nodes, node)

\* ---------------------------------------------------------------------------
\* tagTree.ts: findTagNode
\* ---------------------------------------------------------------------------
\* What findTagNode returns: a node object of the tree, or null.
NullNode == [isNull |-> TRUE, node |-> <<>>]
NodeRef(node) == [isNull |-> FALSE, node |-> node]

\* The helper searchNode over the entries of a Map of nodes, in their order.
RECURSIVE searchNode(_, _, _)
searchNode(t, nodes, lowerPath) ==
    IF nodes = <<>> THEN NullNode
    ELSE IF Head(nodes).key = lowerPath THEN NodeRef(Head(nodes).value)
    ELSE LET hit == searchNode(t, NodeOf(t, Head(nodes).value).children, lowerPath)
         IN  IF ~hit.isNull THEN hit ELSE searchNode(t, Tail(nodes), lowerPath)

\* the path is looked up as it is written
findTagNode_asWritten(t, tagPath) ==
    searchNode(t, t.tree, IF startsWith(tagPath, "#") THEN Tail(tagPath) ELSE tagPath)

findTagNode(t, tagPath) ==
    LET cleanPath == IF startsWith(tagPath, "#") THEN Tail(tagPath) ELSE tagPath
        lowerPath == toLowerCase(cleanPath)
    IN  searchNode(t, t.tree, lowerPath)

\* ---------------------------------------------------------------------------
\* tagTree.ts: getTotalNoteCount
\* ---------------------------------------------------------------------------
\* the count is remembered under the node's path instead of the node object
CacheKey_byPath(t, node) == <<0, node>>

\* The key of a node object in the WeakMap.
CacheKey(t, node) == <<t.id, node>>

RECURSIVE collectFromChildren(_, _, _)
collectFromChildren(t, n, allFiles) ==
    LET children == MapValues(NodeOf(t, n).children)
        RECURSIVE Each(_, _)
        Each(i, files) ==
            IF i > Len(children) THEN files
            ELSE Each(i + 1,
                      collectFromChildren(t, children[i],
                                          files \cup NodeOf(t, children[i]).notesWithTag))
    IN  Each(1, allFiles)

\* the sizes of the subtree's sets are added up
getTotalNoteCount_sum(c, t, node) ==
    LET counts == getNoteCountCache(c)
        RECURSIVE SumOf(_)
        SumOf(n) ==
            LET children == MapValues(NodeOf(t, n).children)
                RECURSIVE Each(_)
                Each(i) == IF i > Len(children) THEN 0 ELSE SumOf(children[i]) + Each(i + 1)
            IN  Cardinality(NodeOf(t, n).notesWithTag) + Each(1)
    IN  IF WeakMapHas(counts.map, CacheKey(t, node))
        THEN [count |-> WeakMapGet(counts.map, CacheKey(t, node)), cache |-> counts]
        ELSE [count |-> SumOf(node),
              cache |-> [counts EXCEPT !.map = WeakMapSet(@, CacheKey(t, node), SumOf(node))]]

\* Returns the count and the cache after the call.
getTotalNoteCount(c, t, node) ==
    LET counts == getNoteCountCache(c)
    IN  IF WeakMapHas(counts.map, CacheKey(t, node))
        THEN [count |-> WeakMapGet(counts.map, CacheKey(t, node)), cache |-> counts]
        ELSE LET allFiles == collectFromChildren(t, node, NodeOf(t, node).notesWithTag)
                 count == Cardinality(allFiles)
             IN  [count |-> count,
                  cache |-> [counts EXCEPT !.map = WeakMapSet(@, CacheKey(t, node), count)]]

\* ---------------------------------------------------------------------------
\* Arguments the callers pass
\* ---------------------------------------------------------------------------
\* Longest list handed to batchUpdate and batchUpdateFileContent.
MaxBatch == 2

\* Longest list of paths handed to getFiles.
MaxRequest == 2

Refs == DOMAIN heap

SeqsUpTo(S, n) == UNION {[1..k -> S] : k \in 0..n}

IsDistinct(s) == \A i, j \in 1..Len(s) : i # j => s[i] # s[j]

\* What the store's bulk load hands to initialize: one entry per key, in any order.
BulkLoads ==
    {fw \in SeqsUpTo([path : Paths, data : Refs], Cardinality(Paths)) :
        IsDistinct([i \in 1..Len(fw) |-> fw[i].path])}

\* Whole-record updates handed to batchUpdate: a path may be listed twice.
BatchUpdates == SeqsUpTo([path : Paths, data : Refs], MaxBatch)

PatchValues == {Undefined, Null, "x"}

\* The updates argument of updateFileContent: a field that is not set reads undefined.
Patches == [preview : PatchValues, featureImage : PatchValues, metadata : PatchValues]

NoPatch == [preview |-> Undefined, featureImage |-> Undefined, metadata |-> Undefined]

\* Entries handed to batchUpdateFileContent: a path and the fields of a patch.
BatchEntry(path, updates) ==
    [path |-> path, preview |-> updates.preview, featureImage |-> updates.featureImage,
     metadata |-> updates.metadata]

BatchPatches ==
    {BatchEntry("a.md", [NoPatch EXCEPT !.preview = "x"]),
     BatchEntry("a.md", [NoPatch EXCEPT !.preview = Null, !.featureImage = "x"]),
     BatchEntry("x/b.md", [NoPatch EXCEPT !.featureImage = "x"]),
     BatchEntry("x/b.md", [NoPatch EXCEPT !.preview = "x", !.metadata = Null])}

BatchContentUpdates == SeqsUpTo(BatchPatches, MaxBatch)

ClearTypes == {"preview", "featureImage", "metadata", "all"}

\* before: the paths the cache held when initialize was called
Op(name, path, arg) == [op |-> name, path |-> path, arg |-> arg, before |-> {}]

\* ---------------------------------------------------------------------------
\* History of whole-record writes, kept beside the cache
\* ---------------------------------------------------------------------------
RECURSIVE WriteEach(_, _)
WriteEach(w, entries) ==
    IF entries = <<>> THEN w
    ELSE WriteEach([w EXCEPT ![Head(entries).path] = Head(entries).data], Tail(entries))

NothingWritten == [p \in Paths |-> Null]

\* ---------------------------------------------------------------------------
\* The cache used on its own: every public method is one action
\* ---------------------------------------------------------------------------
MirrorHeap ==
    [r \in {"o1", "o2"} |->
        [preview |-> Null, featureImage |-> Null, metadata |-> Null,
         tags |-> IF r = "o1" THEN TagList(<<<<"t">>>>) ELSE NullTags]]

Init ==
    /\ heap = MirrorHeap
    /\ cache = NewCache
    /\ store = <<>>
    /\ lastWrite = NothingWritten
    /\ tagTree = NoTagTree
    /\ oldTagTree = NoTagTree
    /\ noteCountCache = NullNoteCountCache
    /\ matched = NoCall
    /\ filtered = NoCall
    /\ foundNode = NoCall
    /\ hub = NewHub
    /\ items = NoItems
    /\ lastOp = Op("new", "-", "-")

Initialize(filesWithPaths) ==
    /\ cache' = initialize(cache, filesWithPaths)
    /\ lastWrite' = WriteEach(NothingWritten, filesWithPaths)
    /\ lastOp' = [Op("initialize", "-", "-") EXCEPT !.before = MapKeys(cache.memoryMap)]
    /\ UNCHANGED <<heap, store>>
    /\ UNCHANGED outsideCache

UpdateFile(path, data) ==
    /\ cache' = updateFile(cache, path, data)
    /\ lastWrite' = [lastWrite EXCEPT ![path] = data]
    /\ lastOp' = Op("updateFile", path, data)
    /\ UNCHANGED <<heap, store>>
    /\ UNCHANGED outsideCache

\* a path that has no record is given the record o1, which is then patched
UpdateFileContent_upserts(path, updates) ==
    /\ cache' = IF hasFile(cache, path) THEN cache ELSE updateFile(cache, path, "o1")
    /\ heap' = updateFileContent(heap, cache', path, updates)
    /\ lastOp' = Op("updateFileContent", path, "-")
    /\ UNCHANGED <<store, lastWrite>>
    /\ UNCHANGED outsideCache

UpdateFileContent(path, updates) ==
    /\ heap' = updateFileContent(heap, cache, path, updates)
    /\ lastOp' = Op("updateFileContent", path, "-")
    /\ UNCHANGED <<cache, store, lastWrite>>
    /\ UNCHANGED outsideCache

DeleteFile(path) ==
    /\ cache' = deleteFile(cache, path)
    /\ lastWrite' = [lastWrite EXCEPT ![path] = Null]
    /\ lastOp' = Op("deleteFile", path, "-")
    /\ UNCHANGED <<heap, store>>
    /\ UNCHANGED outsideCache

BatchUpdate(updates) ==
    /\ cache' = batchUpdate(cache, updates)
    /\ lastWrite' = WriteEach(lastWrite, updates)
    /\ lastOp' = Op("batchUpdate", "-", "-")
    /\ UNCHANGED <<heap, store>>
    /\ UNCHANGED outsideCache

BatchUpdateFileContent(updates) ==
    /\ heap' = batchUpdateFileContent(heap, cache, updates)
    /\ lastOp' = Op("batchUpdateFileContent", "-", "-")
    /\ UNCHANGED <<cache, store, lastWrite>>
    /\ UNCHANGED outsideCache

ClearAllFileContent(type) ==
    /\ heap' = clearAllFileContent(heap, cache, type)
    /\ lastOp' = Op("clearAllFileContent", "-", type)
    /\ UNCHANGED <<cache, store, lastWrite>>
    /\ UNCHANGED outsideCache

Clear ==
    /\ cache' = clear(cache)
    /\ lastWrite' = NothingWritten
    /\ lastOp' = Op("clear", "-", "-")
    /\ UNCHANGED <<heap, store>>
    /\ UNCHANGED outsideCache

Next ==
    \/ \E filesWithPaths \in BulkLoads : Initialize(filesWithPaths)
    \/ \E path \in Paths, data \in Refs : UpdateFile(path, data)
    \/ \E path \in Paths, updates \in Patches : UpdateFileContent(path, updates)
    \/ \E path \in Paths : DeleteFile(path)
    \/ \E updates \in BatchUpdates : BatchUpdate(updates)
    \/ \E updates \in BatchContentUpdates : BatchUpdateFileContent(updates)
    \/ \E type \in ClearTypes : ClearAllFileContent(type)
    \/ Clear

Spec == Init /\ [][Next]_vars

\* ---------------------------------------------------------------------------
\* The cache behind the store's write helpers: each helper writes the store
\* and then the cache
\* ---------------------------------------------------------------------------
bulkLoad(s) == [i \in 1..Len(s) |-> [path |-> s[i].key, data |-> s[i].value]]

put(s, path, data) == MapSet(s, path, data)

delete(s, path) == MapDelete(s, path)

InitStore ==
    /\ heap = MirrorHeap
    /\ cache = NewCache
    /\ store \in {SetEach(<<>>, filesWithPaths) : filesWithPaths \in BulkLoads}
    /\ lastWrite = NothingWritten
    /\ tagTree = NoTagTree
    /\ oldTagTree = NoTagTree
    /\ noteCountCache = NullNoteCountCache
    /\ matched = NoCall
    /\ filtered = NoCall
    /\ foundNode = NoCall
    /\ hub = NewHub
    /\ items = NoItems
    /\ lastOp = Op("new", "-", "-")

StoreInitialize ==
    /\ cache' = initialize(cache, bulkLoad(store))
    /\ lastWrite' = WriteEach(NothingWritten, bulkLoad(store))
    /\ lastOp' = [Op("initialize", "-", "-") EXCEPT !.before = MapKeys(cache.memoryMap)]
    /\ UNCHANGED <<heap, store>>
    /\ UNCHANGED outsideCache

StoreSetFile(path, data) ==
    /\ store' = put(store, path, data)
    /\ cache' = updateFile(cache, path, data)
    /\ lastWrite' = [lastWrite EXCEPT ![path] = data]
    /\ lastOp' = Op("updateFile", path, data)
    /\ UNCHANGED heap
    /\ UNCHANGED outsideCache

StoreSetFiles(updates) ==
    /\ store' = SetEach(store, updates)
    /\ cache' = batchUpdate(cache, updates)
    /\ lastWrite' = WriteEach(lastWrite, updates)
    /\ lastOp' = Op("batchUpdate", "-", "-")
    /\ UNCHANGED heap
    /\ UNCHANGED outsideCache

StoreUpdateFileContent(path, updates) ==
    /\ heap' = updateFileContent(heap, cache, path, updates)
    /\ lastOp' = Op("updateFileContent", path, "-")
    /\ UNCHANGED <<cache, store, lastWrite>>
    /\ UNCHANGED outsideCache

StoreDeleteFile(path) ==
    /\ store' = delete(store, path)
    /\ cache' = deleteFile(cache, path)
    /\ lastWrite' = [lastWrite EXCEPT ![path] = Null]
    /\ lastOp' = Op("deleteFile", path, "-")
    /\ UNCHANGED heap
    /\ UNCHANGED outsideCache

StoreClearAllFileContent(type) ==
    /\ heap' = clearAllFileContent(heap, cache, type)
    /\ lastOp' = Op("clearAllFileContent", "-", type)
    /\ UNCHANGED <<cache, store, lastWrite>>
    /\ UNCHANGED outsideCache

NextStore ==
    \/ StoreInitialize
    \/ \E path \in Paths, data \in Refs : StoreSetFile(path, data)
    \/ \E updates \in BatchUpdates : StoreSetFiles(updates)
    \/ \E path \in Paths, updates \in Patches : StoreUpdateFileContent(path, updates)
    \/ \E path \in Paths : StoreDeleteFile(path)
    \/ \E type \in ClearTypes : StoreClearAllFileContent(type)

SpecStore == InitStore /\ [][NextStore]_vars

\* ---------------------------------------------------------------------------
\* The tag tree over the cache: records are written and deleted, the tree is
\* rebuilt, and note counts are asked of the nodes of the last two builds
\* ---------------------------------------------------------------------------
\* t1 is tagged at two nested depths; t2 is tagged below the root only, in
\* another letter case.
TaggedHeap ==
    LET record(tags) == [preview |-> Null, featureImage |-> Null, metadata |-> Null,
                         tags |-> tags]
    IN  [r \in {"t1", "t2"} |->
            IF r = "t1" THEN record(TagList(<<<<"#", "P">>, <<"P", "/", "s">>>>))
            ELSE record(TagList(<<<<"p", "/", "S">>>>))]

ExcludedFolderPatterns == {NoPatterns}

InitTree ==
    /\ heap = TaggedHeap
    /\ cache = NewCache
    /\ store = <<>>
    /\ lastWrite = NothingWritten
    /\ tagTree = NoTagTree
    /\ oldTagTree = NoTagTree
    /\ noteCountCache = NullNoteCountCache
    /\ matched = NoCall
    /\ filtered = NoCall
    /\ foundNode = NoCall
    /\ hub = NewHub
    /\ items = NoItems
    /\ lastOp = Op("new", "-", "-")

\* The node objects of a build are new objects: their id is not that of the
\* tree held until now.  The tree given up is collected.
Build(excludedFolderPatterns) ==
    /\ tagTree' = [id |-> IF tagTree.id = 1 THEN 2 ELSE 1] @@
                  buildTagTreeFromDatabase(heap, cache, excludedFolderPatterns)
    /\ oldTagTree' = tagTree
    /\ noteCountCache' =
            clearNoteCountCache(
                [noteCountCache EXCEPT !.map = WeakMapCollect(@, oldTagTree.id)])
    /\ lastOp' = Op("buildTagTreeFromDatabase", "-", "-")
    /\ UNCHANGED outsideTagTree

GetTotalNoteCount(t, node) ==
    /\ noteCountCache' = getTotalNoteCount(noteCountCache, t, node).cache
    /\ lastOp' = Op("getTotalNoteCount", "-", "-")
    /\ UNCHANGED <<tagTree, oldTagTree>>
    /\ UNCHANGED outsideTagTree

ClearNoteCountCache ==
    /\ noteCountCache' = clearNoteCountCache(noteCountCache)
    /\ lastOp' = Op("clearNoteCountCache", "-", "-")
    /\ UNCHANGED <<tagTree, oldTagTree>>
    /\ UNCHANGED outsideTagTree

NextTree ==
    \/ \E path \in Paths, data \in Refs : UpdateFile(path, data)
    \/ \E path \in Paths : DeleteFile(path)
    \/ \E excludedFolderPatterns \in ExcludedFolderPatterns : Build(excludedFolderPatterns)
    \/ \E t \in {tagTree, oldTagTree} : \E node \in MapKeys(t.nodes) : GetTotalNoteCount(t, node)
    \/ ClearNoteCountCache

SpecTree == InitTree /\ [][NextTree]_vars

\* ---------------------------------------------------------------------------
\* Properties of the cache
\* ---------------------------------------------------------------------------
ContentFields == {"preview", "featureImage", "metadata"}

\* C1: getFile(p) reflects the most recent whole-record write for p: the object
\* of the last updateFile(p, r) when no deleteFile(p) came after it, and null
\* when the last write was a deleteFile or p was never written.
C1_GetFileReflectsLastWrite ==
    \A p \in Paths : getFile(cache, p) = lastWrite[p]

\* a.md was written, b.md was written after it, and a.md was written again
C1_Witness ==
    /\ lastOp = Op("updateFile", "a.md", "o2")
    /\ cache.memoryMap = <<[key |-> "a.md", value |-> "o2"], [key |-> "x/b.md", value |-> "o1"]>>

\* The value a batch of patches leaves in field f of object r: that of the last
\* entry that addresses r and has f set.
LastSet(updates, r, f) ==
    LET hits == {i \in 1..Len(updates) :
                    /\ MapGet(cache.memoryMap, updates[i].path) = r
                    /\ updates[i][f] # Undefined}
    IN  IF hits = {} THEN heap[r][f]
        ELSE updates[CHOOSE i \in hits : \A j \in hits : j <= i][f]

\* C2: updateFileContent on an existing record overwrites exactly the fields
\* set in the patch, an explicit null included, leaves the other fields alone
\* and never changes tags; batchUpdateFileContent does so for each entry.
C2_PatchOverwritesOnlySetFields ==
    /\ \A path \in MapKeys(cache.memoryMap), updates \in Patches :
          LET r == getFile(cache, path)
              after == updateFileContent(heap, cache, path, updates)
          IN  /\ \A f \in ContentFields :
                    after[r][f] = IF updates[f] # Undefined THEN updates[f] ELSE heap[r][f]
              /\ after[r].tags = heap[r].tags
    /\ \A updates \in BatchContentUpdates :
          LET after == batchUpdateFileContent(heap, cache, updates)
          IN  \A r \in Refs :
                  /\ \A f \in ContentFields : after[r][f] = LastSet(updates, r, f)
                  /\ after[r].tags = heap[r].tags

\* a patch was applied to a.md, whose record now has preview null beside a
\* feature image and metadata
C2_Witness ==
    /\ lastOp = Op("updateFileContent", "a.md", "-")
    /\ hasFile(cache, "a.md")
    /\ heap[getFile(cache, "a.md")].preview = Null
    /\ heap[getFile(cache, "a.md")].featureImage = "x"
    /\ heap[getFile(cache, "a.md")].metadata = "x"

Entries(s) == {s[i] : i \in 1..Len(s)}

\* C3: after initialize(records), whatever the cache held before,
\* getAllFilesWithPaths() is exactly the input: same size, same (path, record)
\* pairs, and no earlier entry survives.
C3_InitializeReplacesAll ==
    \A filesWithPaths \in BulkLoads :
        LET after == initialize(cache, filesWithPaths)
        IN  /\ Len(getAllFilesWithPaths(after)) = Len(filesWithPaths)
            /\ Entries(getAllFilesWithPaths(after)) = Entries(filesWithPaths)

\* initialize ran on a cache holding a.md and b.md and left b.md alone
C3_Witness ==
    /\ lastOp.op = "initialize"
    /\ lastOp.before = {"a.md", "x/b.md"}
    /\ MapKeys(cache.memoryMap) = {"x/b.md"}

\* C4: once the cache is initialized, its set of paths is the store's set of
\* keys after every write made through the store's helpers.
C4_MirrorKeysEqualStoreKeys ==
    isReady(cache) => MapKeys(cache.memoryMap) = MapKeys(store)

\* a delete on an initialized cache left exactly b.md in both
C4_Witness ==
    /\ lastOp = Op("deleteFile", "a.md", "-")
    /\ isReady(cache)
    /\ MapKeys(store) = {"x/b.md"}
    /\ MapKeys(cache.memoryMap) = {"x/b.md"}

Cleared(type) == IF type = "all" THEN ContentFields ELSE {type}

\* C5: clearAllFileContent(kind) sets the named content fields to null on every
\* record of the cache, leaves the other fields and tags of every record as
\* they were, and leaves the set of paths unchanged.
C5_ClearAllNullsOnlyNamedFields ==
    /\ [](\A type \in ClearTypes :
            LET after == clearAllFileContent(heap, cache, type)
            IN  \A p \in MapKeys(cache.memoryMap) :
                    LET r == getFile(cache, p)
                    IN  /\ \A f \in Cleared(type) : after[r][f] = Null
                        /\ \A f \in ContentFields \ Cleared(type) : after[r][f] = heap[r][f]
                        /\ after[r].tags = heap[r].tags)
    /\ [][lastOp'.op = "clearAllFileContent" =>
            /\ heap' = clearAllFileContent(heap, cache, lastOp'.arg)
            /\ MapKeys(cache'.memoryMap) = MapKeys(cache.memoryMap)]_vars

\* previews were cleared on a cache of two records; a.md keeps its feature
\* image and its tags
C5_Witness ==
    /\ lastOp = Op("clearAllFileContent", "-", "preview")
    /\ Len(cache.memoryMap) = 2
    /\ getFile(cache, "a.md") = "o1"
    /\ heap["o1"].preview = Null
    /\ heap["o1"].featureImage = "x"
    /\ heap["o1"].tags = TagList(<<<<"t">>>>)

\* C6: deleteFile(path) removes the entry for path and changes no other entry;
\* when path has no entry the cache is left exactly as it was.
C6_DeleteRemovesOnlyThatEntry ==
    \A path \in Paths :
        LET after == deleteFile(cache, path)
        IN  /\ ~hasFile(after, path)
            /\ \A q \in Paths \ {path} :
                    MapGet(after.memoryMap, q) = MapGet(cache.memoryMap, q)
            /\ isReady(after) = isReady(cache)
            /\ ~hasFile(cache, path) => after = cache

\* a.md was deleted from a cache that holds it after b.md; b.md is still there
C6_Witness ==
    /\ lastOp = Op("deleteFile", "a.md", "-")
    /\ cache.memoryMap = <<[key |-> "x/b.md", value |-> "o1"]>>
    /\ lastWrite["x/b.md"] = "o1"

Range(s) == {s[i] : i \in 1..Len(s)}

\* C7: getFile(path) is the stored record when path is present and null when it
\* is absent; getFiles(paths) holds exactly the requested paths that are
\* present, each with its stored record.
C7_AbsenceIsAValue ==
    /\ \A p \in Paths :
          getFile(cache, p) =
              IF p \in MapKeys(cache.memoryMap)
              THEN (CHOOSE e \in Entries(cache.memoryMap) : e.key = p).value
              ELSE Null
    /\ \A paths \in SeqsUpTo(Paths, MaxRequest) :
          LET found == getFiles(cache, paths)
          IN  /\ MapKeys(found) = Range(paths) \cap MapKeys(cache.memoryMap)
              /\ Len(found) = Cardinality(MapKeys(found))
              /\ \A e \in Entries(found) : e \in Entries(cache.memoryMap)

\* a.md is present and b.md is absent
C7_Witness ==
    /\ getFile(cache, "a.md") = "o1"
    /\ getFile(cache, "x/b.md") = Null
    /\ getFiles(cache, <<"x/b.md", "a.md">>) = <<[key |-> "a.md", value |-> "o1"]>>

\* C8: isReady() is false on a new cache, true after initialize, false after
\* clear, and unchanged by every other operation.
C8_ReadyOnlyChangedByInitializeAndClear ==
    /\ ~isReady(cache)
    /\ [][/\ lastOp'.op = "initialize" => isReady(cache')
          /\ lastOp'.op = "clear" => ~isReady(cache')
          /\ lastOp'.op \notin {"initialize", "clear"} => isReady(cache') = isReady(cache)
         ]_vars

\* the cache was initialized, cleared, and written to again: not ready
C8_Witness ==
    /\ lastOp = Op("updateFile", "a.md", "o1")
    /\ ~isReady(cache)
    /\ lastWrite["x/b.md"] = "o2"

\* ---------------------------------------------------------------------------
\* Properties of the note counts
\* ---------------------------------------------------------------------------
ChildrenOf(t, n) == {e.value : e \in Entries(NodeOf(t, n).children)}

\* The nodes reached from the nodes of found through children, found included.
RECURSIVE Reached(_, _)
Reached(t, found) ==
    LET more == found \cup UNION {ChildrenOf(t, n) : n \in found}
    IN  IF more = found THEN found ELSE Reached(t, more)

\* The distinct files in notesWithTag of a node and of all its descendants.
FilesUnder(t, node) == UNION {NodeOf(t, n).notesWithTag : n \in Reached(t, {node})}

\* C9: getTotalNoteCount(node) is the number of distinct file paths in the union
\* of notesWithTag over node and all of its descendants; a file tagged at two
\* nested depths of the subtree is counted once.
C9_TotalIsSizeOfUnion ==
    \A t \in {tagTree, oldTagTree} :
        \A node \in MapKeys(t.nodes) :
            getTotalNoteCount(noteCountCache, t, node).count = Cardinality(FilesUnder(t, node))

\* the count of root p was taken and is 2: a.md is tagged p and p/s, x/b.md is
\* tagged p/s
C9_Witness ==
    /\ MapHas(tagTree.nodes, <<"p">>)
    /\ MapHas(tagTree.nodes, <<"p", "/", "s">>)
    /\ NodeOf(tagTree, <<"p">>).notesWithTag = {"a.md"}
    /\ NodeOf(tagTree, <<"p", "/", "s">>).notesWithTag = {"a.md", "x/b.md"}
    /\ ~noteCountCache.isNull
    /\ [key |-> CacheKey(tagTree, <<"p">>), value |-> 2] \in noteCountCache.map

\* C10: whatever writes, rebuilds and count calls came before, getTotalNoteCount
\* on a node of the most recently built tree returns the size of the union for
\* that tree, a second call returns the same value, a rebuild leaves no
\* memoized entry, and no entry memoized for a node of another build is
\* returned for a node of this one.
C10_NoStaleCountAfterRebuild ==
    /\ \A node \in MapKeys(tagTree.nodes) :
          LET first == getTotalNoteCount(noteCountCache, tagTree, node)
              again == getTotalNoteCount(first.cache, tagTree, node)
          IN  /\ first.count = Cardinality(FilesUnder(tagTree, node))
              /\ again.count = first.count
              /\ again.cache = first.cache
    /\ lastOp.op = "buildTagTreeFromDatabase" => noteCountCache.isNull
    /\ \A e \in noteCountCache.map :
          e.key[1] = tagTree.id => e.value = Cardinality(FilesUnder(tagTree, e.key[2]))

\* after the rebuild, counts were taken of root p of the tree before it and of
\* root p of the new tree, and they differ
C10_Witness ==
    /\ MapHas(tagTree.nodes, <<"p">>)
    /\ MapHas(oldTagTree.nodes, <<"p">>)
    /\ ~noteCountCache.isNull
    /\ WeakMapHas(noteCountCache.map, CacheKey(tagTree, <<"p">>))
    /\ WeakMapHas(noteCountCache.map, CacheKey(oldTagTree, <<"p">>))
    /\ WeakMapGet(noteCountCache.map, CacheKey(tagTree, <<"p">>))
         # WeakMapGet(noteCountCache.map, CacheKey(oldTagTree, <<"p">>))

\* ---------------------------------------------------------------------------
\* The tag tree builder on its own: a build over every cache a bulk load yields
\* ---------------------------------------------------------------------------
\* Records with tags at three depths, in two letter cases, with no tags, and
\* with tags not extracted yet.
BuildHeap ==
    LET record(tags) == [preview |-> Null, featureImage |-> Null, metadata |-> Null,
                         tags |-> tags]
    IN  [r \in {"t1", "t2", "t3", "t4", "t5", "t6", "t7", "t8"} |->
            CASE r = "t1" -> record(TagList(<<<<"#", "P">>, <<"P", "/", "s">>>>))
              [] r = "t2" -> record(TagList(<<<<"p", "/", "S">>>>))
              [] r = "t3" -> record(TagList(<<>>))
              [] r = "t4" -> record(NullTags)
              [] r = "t5" -> record(TagList(<<<<"p">>>>))
              [] r = "t6" -> record(TagList(<<<<"P">>>>))
              [] r = "t7" -> record(TagList(<<<<"p", "/", "s", "/", "u">>>>))
              [] r = "t8" -> record(TagList(<<<<"#", "P", "/", "S", "/", "v">>, <<"q">>>>))]

BuildPatterns == {NoPatterns, FolderPatterns(<<"x">>)}

InitBuild ==
    /\ heap = BuildHeap
    /\ cache \in {initialize(NewCache, filesWithPaths) : filesWithPaths \in BulkLoads}
    /\ store = <<>>
    /\ lastWrite = NothingWritten
    /\ tagTree = NoTagTree
    /\ oldTagTree = NoTagTree
    /\ noteCountCache = NullNoteCountCache
    /\ matched = NoCall
    /\ filtered = NoCall
    /\ foundNode = NoCall
    /\ hub = NewHub
    /\ items = NoItems
    /\ lastOp = Op("new", "-", "-")

NextBuild ==
    \E excludedFolderPatterns \in BuildPatterns : Build(excludedFolderPatterns)

SpecBuild == InitBuild /\ [][NextBuild]_vars

\* ---------------------------------------------------------------------------
\* Properties of a built tag tree
\* ---------------------------------------------------------------------------
\* A tag or path with its letters in lower case and without a leading '#'.
Folded(str) == [i \in 1..Len(str) |-> LowerChar(str[i])]
Unmarked(tag) == IF Len(tag) > 0 /\ tag[1] = "#" THEN SubSeq(tag, 2, Len(tag)) ELSE tag

\* The entries of the cache a build with these patterns reads tags of, in scan order.
Scanned(c, patterns) ==
    SelectSeq(getAllFilesWithPaths(c),
              LAMBDA file : ~(patterns.given /\ isPathInExcludedFolder(file.path, patterns.patterns)))

TagsOf(h, file) == IF h[file.data].tags.isNull THEN <<>> ELSE h[file.data].tags.list

\* C11: in a built tree a file path is in notesWithTag of a node only when one
\* of the file's own tags, without a leading '#' and ignoring letter case, is
\* exactly the node's path; a tag at a descendant attaches nothing to an ancestor.
C11_AttachedOnlyAtTaggedNode ==
    \A patterns \in BuildPatterns :
        LET t == buildTagTreeFromDatabase(heap, cache, patterns)
            scanned == Scanned(cache, patterns)
        IN  \A key \in MapKeys(t.nodes) :
                \A path \in NodeOf(t, key).notesWithTag :
                    \E i \in 1..Len(scanned) :
                        /\ scanned[i].path = path
                        /\ \E j \in 1..Len(TagsOf(heap, scanned[i])) :
                              Folded(Unmarked(TagsOf(heap, scanned[i])[j]))
                                  = Folded(NodeOf(t, key).path)

\* x/b.md is tagged p/S only: the built tree has it at p/s and node p holds no file
C11_Witness ==
    /\ lastOp.op = "buildTagTreeFromDatabase"
    /\ getFile(cache, "x/b.md") = "t2"
    /\ ~hasFile(cache, "a.md")
    /\ MapHas(tagTree.nodes, <<"p">>)
    /\ NodeOf(tagTree, <<"p">>).notesWithTag = {}
    /\ NodeOf(tagTree, <<"p", "/", "s">>).notesWithTag = {"x/b.md"}

\* The folded tag paths a record's tag stands for: the tag and each of its
\* prefixes that ends before a '/'.
PrefixesOf(tag) ==
    {Folded(SubSeq(tag, 1, k)) : k \in {n \in 1..Len(tag) : n = Len(tag) \/ tag[n + 1] = "/"}}

TagPathsOf(h, scanned) ==
    UNION {UNION {PrefixesOf(Unmarked(TagsOf(h, scanned[i])[j])) :
                    j \in 1..Len(TagsOf(h, scanned[i]))} :
            i \in 1..Len(scanned)}

RootsOf(t) == {e.value : e \in Entries(t.tree)}

\* C12: tag identity ignores letter case: a built tree holds exactly one node
\* per distinct lowercased tag path of the scanned records, no two nodes
\* reachable from its roots have paths that are equal when lowercased, and a
\* node holds the files of every case variant of its tag.
C12_OneNodePerFoldedPath ==
    \A patterns \in BuildPatterns :
        LET t == buildTagTreeFromDatabase(heap, cache, patterns)
            scanned == Scanned(cache, patterns)
            nodes == Reached(t, RootsOf(t))
        IN  /\ nodes = MapKeys(t.nodes)
            /\ Len(t.nodes) = Cardinality(TagPathsOf(heap, scanned))
            /\ {Folded(NodeOf(t, key).path) : key \in nodes} = TagPathsOf(heap, scanned)
            /\ \A k1, k2 \in nodes :
                  Folded(NodeOf(t, k1).path) = Folded(NodeOf(t, k2).path) => k1 = k2
            /\ \A i \in 1..Len(scanned) : \A j \in 1..Len(TagsOf(heap, scanned[i])) :
                  \E key \in nodes :
                      /\ Folded(NodeOf(t, key).path) = Folded(Unmarked(TagsOf(heap, scanned[i])[j]))
                      /\ scanned[i].path \in NodeOf(t, key).notesWithTag

\* a.md is tagged P and x/b.md is tagged p: the built tree is one node with both
C12_Witness ==
    /\ lastOp.op = "buildTagTreeFromDatabase"
    /\ getFile(cache, "a.md") = "t6"
    /\ getFile(cache, "x/b.md") = "t5"
    /\ Len(tagTree.nodes) = 1
    /\ Len(tagTree.tree) = 1
    /\ NodeOf(tagTree, <<"p">>).notesWithTag = {"a.md", "x/b.md"}

\* The tags of the scanned records without their marker, in the order of the scan.
RECURSIVE TagsInScanOrder(_, _)
TagsInScanOrder(h, scanned) ==
    IF scanned = <<>> THEN <<>>
    ELSE [j \in 1..Len(TagsOf(h, Head(scanned))) |-> Unmarked(TagsOf(h, Head(scanned))[j])]
            \o TagsInScanOrder(h, Tail(scanned))

\* The casing of the folded tag path key in the first tag of tags that has it.
FirstCasing(tags, key) ==
    LET n == CHOOSE n \in 1..Len(tags) :
                /\ key \in PrefixesOf(tags[n])
                /\ \A m \in 1..(n - 1) : key \notin PrefixesOf(tags[m])
    IN  SubSeq(tags[n], 1, Len(key))

LastSegment(path) ==
    LET start == CHOOSE k \in 1..(Len(path) + 1) :
                    /\ k = 1 \/ path[k - 1] = "/"
                    /\ \A n \in k..Len(path) : path[n] # "/"
    IN  SubSeq(path, start, Len(path))

Reverse(s) == [i \in 1..Len(s) |-> s[Len(s) + 1 - i]]

\* C13: with the records scanned in the order of the cache, each node's path
\* is written as in the first tag of the scan that has this path (as the tag or
\* as a prefix of it) and its name is the last segment of that; a later tag
\* that differs in letter case changes neither.
C13_FirstSeenCasingWins ==
    \A patterns \in BuildPatterns :
        LET t == buildTagTreeFromDatabase(heap, cache, patterns)
            tags == TagsInScanOrder(heap, Scanned(cache, patterns))
        IN  \A key \in MapKeys(t.nodes) :
                /\ NodeOf(t, key).path = FirstCasing(tags, key)
                /\ NodeOf(t, key).name = LastSegment(FirstCasing(tags, key))

\* a.md tagged P was scanned before x/b.md tagged p/S: node p reads P, node p/s
\* reads p/S, and a build over the same records in the other order makes node
\* p read p
C13_Witness ==
    /\ lastOp.op = "buildTagTreeFromDatabase"
    /\ getAllFilesWithPaths(cache) = <<[path |-> "a.md", data |-> "t6"],
                                       [path |-> "x/b.md", data |-> "t2"]>>
    /\ NodeOf(tagTree, <<"p">>).path = <<"P">>
    /\ NodeOf(tagTree, <<"p">>).name = <<"P">>
    /\ NodeOf(tagTree, <<"p", "/", "s">>).path = <<"p", "/", "S">>
    /\ NodeOf(tagTree, <<"p", "/", "s">>).name = <<"S">>
    /\ LET other == buildTagTreeFromDatabase(
                        heap, [cache EXCEPT !.memoryMap = Reverse(@)], NoPatterns)
       IN  NodeOf(other, <<"p">>).path = <<"p">>

\* The cache without the entries whose record has no tag or no extracted tags.
Tagged(h, c) ==
    [c EXCEPT !.memoryMap = SelectSeq(@, LAMBDA e : /\ ~h[e.value].tags.isNull
                                                    /\ h[e.value].tags.list # <<>>)]

\* C14: the untagged count of a build is the number of scanned records whose
\* tags is the empty array: a record with tags null adds nothing to it, a record
\* with tags [] adds one, and neither creates a node or changes one.
C14_UntaggedCountsEmptyTagsOnly ==
    \A patterns \in BuildPatterns :
        LET t == buildTagTreeFromDatabase(heap, cache, patterns)
            scanned == Scanned(cache, patterns)
        IN  /\ t.untagged = Cardinality({i \in 1..Len(scanned) :
                                /\ ~heap[scanned[i].data].tags.isNull
                                /\ heap[scanned[i].data].tags.list = <<>>})
            /\ t.nodes = buildTagTreeFromDatabase(heap, Tagged(heap, cache), patterns).nodes
            /\ t.tree = buildTagTreeFromDatabase(heap, Tagged(heap, cache), patterns).tree

\* a build over a.md with tags [] and x/b.md with tags null: untagged is 1 and
\* the tree is empty
C14_Witness ==
    /\ lastOp.op = "buildTagTreeFromDatabase"
    /\ getFile(cache, "a.md") = "t3"
    /\ getFile(cache, "x/b.md") = "t4"
    /\ tagTree.untagged = 1
    /\ tagTree.nodes = <<>>

\* ---------------------------------------------------------------------------
\* Regular expressions, as far as the tag patterns reach them
\* ---------------------------------------------------------------------------
\* What a call ends with: a returned value, or an exception that leaves it.
Returned(v) == [threw |-> FALSE, value |-> v]
Thrown == [threw |-> TRUE, value |-> FALSE]

endsWith(str, ch) == Len(str) > 0 /\ str[Len(str)] = ch

\* str.trim()
RECURSIVE trim(_)
trim(str) ==
    IF str # <<>> /\ Head(str) = " " THEN trim(Tail(str))
    ELSE IF str # <<>> /\ str[Len(str)] = " " THEN trim(SubSeq(str, 1, Len(str) - 1))
    ELSE str

\* The characters /[.+?^${}()|[\]\\]/ names.
SpecialCharacters == {".", "+", "?", "^", "$", "{", "}", "(", ")", "|", "[", "]", "\\"}

\* no character is escaped
escapeSpecial_none(str) == str

\* str.replace(/[.+?^${}()|[\]\\]/g, '\\$&')
RECURSIVE escapeSpecial(_)
escapeSpecial(str) ==
    IF str = <<>> THEN <<>>
    ELSE (IF Head(str) \in SpecialCharacters THEN <<"\\", Head(str)>> ELSE <<Head(str)>>)
            \o escapeSpecial(Tail(str))

\* str.replace(/\*/g, '.*')
RECURSIVE replaceStars(_)
replaceStars(str) ==
    IF str = <<>> THEN <<>>
    ELSE (IF Head(str) = "*" THEN <<".", "*">> ELSE <<Head(str)>>) \o replaceStars(Tail(str))

\* The terms of a compiled expression.  The sources met here are made of
\* letters, '/', '#', '.', '*', '^', '$', escaped special characters, and
\* '(' , ')' and '[' that no other character pairs with.
Term(kind, ch) == [kind |-> kind, ch |-> ch, star |-> FALSE]

\* new RegExp(source, 'i'): the terms from character i on, or a SyntaxError.
RECURSIVE Compile(_, _, _)
Compile(source, i, terms) ==
    IF i > Len(source) THEN [threw |-> FALSE, terms |-> terms]
    ELSE
        LET ch == source[i]
        IN  IF ch = "\\"
            THEN IF i = Len(source) THEN [threw |-> TRUE, terms |-> <<>>]
                 ELSE Compile(source, i + 2, Append(terms, Term("char", source[i + 1])))
            ELSE IF ch = "*"
            THEN IF \/ terms = <<>>
                    \/ terms[Len(terms)].kind \in {"start", "end"}
                    \/ terms[Len(terms)].star
                 THEN [threw |-> TRUE, terms |-> <<>>]
                 ELSE Compile(source, i + 1, [terms EXCEPT ![Len(terms)].star = TRUE])
            ELSE IF ch \in {"(", ")", "["}
            THEN [threw |-> TRUE, terms |-> <<>>]
            ELSE IF ch = "." THEN Compile(source, i + 1, Append(terms, Term("any", ch)))
            ELSE IF ch = "^" THEN Compile(source, i + 1, Append(terms, Term("start", ch)))
            ELSE IF ch = "$" THEN Compile(source, i + 1, Append(terms, Term("end", ch)))
            ELSE Compile(source, i + 1, Append(terms, Term("char", ch)))

RegExp(source) == Compile(source, 1, <<>>)

\* One character against one term, letter case ignored (flag i).
Accepts(term, ch) == term.kind = "any" \/ LowerChar(term.ch) = LowerChar(ch)

\* The terms from term i on match str from just after position pos.
RECURSIVE MatchFrom(_, _, _, _)
MatchFrom(terms, i, str, pos) ==
    IF i > Len(terms) THEN TRUE
    ELSE
        LET term == terms[i]
        IN  IF term.kind = "start" THEN pos = 0 /\ MatchFrom(terms, i + 1, str, pos)
            ELSE IF term.kind = "end" THEN pos = Len(str) /\ MatchFrom(terms, i + 1, str, pos)
            ELSE IF term.star
            THEN \E n \in 0..(Len(str) - pos) :
                    /\ \A k \in 1..n : Accepts(term, str[pos + k])
                    /\ MatchFrom(terms, i + 1, str, pos + n)
            ELSE /\ pos < Len(str)
                 /\ Accepts(term, str[pos + 1])
                 /\ MatchFrom(terms, i + 1, str, pos + 1)

\* regex.test(str): a match starting anywhere.
test(terms, str) == \E pos \in 0..Len(str) : MatchFrom(terms, 1, str, pos)

\* ---------------------------------------------------------------------------
\* tagTree.ts: tag patterns
\* ---------------------------------------------------------------------------
RECURSIVE TrimEach(_)
TrimEach(strs) == IF strs = <<>> THEN <<>> ELSE <<trim(Head(strs))>> \o TrimEach(Tail(strs))

parseTagPatterns(patterns) ==
    SelectSeq(TrimEach(split(patterns, ",")), LAMBDA pattern : Len(pattern) > 0)

\* the SyntaxError of a malformed expression is not caught
matchesTagPattern_uncaught(tagPath, pattern) ==
    LET cleanTag == IF startsWith(tagPath, "#") THEN Tail(tagPath) ELSE tagPath
        cleanPattern == IF startsWith(pattern, "#") THEN Tail(pattern) ELSE pattern
    IN  IF startsWith(cleanPattern, "/") /\ endsWith(cleanPattern, "/")
        THEN LET regex == RegExp(SubSeq(cleanPattern, 2, Len(cleanPattern) - 1))
             IN  IF regex.threw THEN Thrown ELSE Returned(test(regex.terms, cleanTag))
        ELSE LET escapedPattern == replaceStars(escapeSpecial(cleanPattern))
                 regex == RegExp(<<"^">> \o escapedPattern \o <<"$">>)
             IN  IF regex.threw THEN Thrown ELSE Returned(test(regex.terms, cleanTag))

matchesTagPattern(tagPath, pattern) ==
    LET cleanTag == IF startsWith(tagPath, "#") THEN Tail(tagPath) ELSE tagPath
        cleanPattern == IF startsWith(pattern, "#") THEN Tail(pattern) ELSE pattern
    IN  IF startsWith(cleanPattern, "/") /\ endsWith(cleanPattern, "/")
        THEN \* try { ... } catch (e) { return false; }
             LET regex == RegExp(SubSeq(cleanPattern, 2, Len(cleanPattern) - 1))
             IN  IF regex.threw THEN Returned(FALSE) ELSE Returned(test(regex.terms, cleanTag))
        ELSE LET escapedPattern == replaceStars(escapeSpecial(cleanPattern))
                 regex == RegExp(<<"^">> \o escapedPattern \o <<"$">>)
             IN  IF regex.threw THEN Thrown ELSE Returned(test(regex.terms, cleanTag))

\* patterns.some(pattern => matchesTagPattern(path, pattern)): the patterns are
\* tried in order up to the first that matches.
RECURSIVE some(_, _)
some(patterns, path) ==
    IF patterns = <<>> THEN Returned(FALSE)
    ELSE LET first == matchesTagPattern(path, Head(patterns))
         IN  IF first.threw \/ first.value THEN first ELSE some(Tail(patterns), path)

\* The loop over the prefixes of a node's path, from the longest (i parts) down.
RECURSIVE shouldInclude(_, _, _)
shouldInclude(pathParts, i, patterns) ==
    IF i = 0 THEN Returned(FALSE)
    ELSE LET partialPath == join(SubSeq(pathParts, 1, i), "/")
             found == some(patterns, partialPath)
         IN  IF found.threw \/ found.value THEN found
             ELSE shouldInclude(pathParts, i - 1, patterns)

\* What filterTagTree and excludeFromTagTree end with: the returned Map.
ReturnedTree(tree) == [threw |-> FALSE, tree |-> tree]
ThrownTree == [threw |-> TRUE, tree |-> <<>>]

\* The loop of filterTagTree over the entries of tree, into filtered.
RECURSIVE FilterEntries(_, _, _, _)
FilterEntries(t, entries, patterns, result) ==
    IF entries = <<>> THEN ReturnedTree(result)
    ELSE LET key == Head(entries).key
             node == NodeOf(t, Head(entries).value)
             include == shouldInclude(split(node.path, "/"), Len(split(node.path, "/")), patterns)
         IN  IF include.threw THEN ThrownTree
             ELSE FilterEntries(t, Tail(entries), patterns,
                                IF include.value THEN MapSet(result, key, Head(entries).value)
                                ELSE result)

\* t is a build result: t.tree is the Map handed in, t.nodes holds its node objects.
filterTagTree(t, includePatterns) ==
    IF Len(includePatterns) = 0 THEN ReturnedTree(t.tree)
    ELSE FilterEntries(t, t.tree, parseTagPatterns(join(includePatterns, ",")), <<>>)

\* The loop of excludeFromTagTree over the entries of tree, into filtered.
RECURSIVE ExcludeEntries(_, _, _, _)
ExcludeEntries(t, entries, patterns, result) ==
    IF entries = <<>> THEN ReturnedTree(result)
    ELSE LET key == Head(entries).key
             node == NodeOf(t, Head(entries).value)
             shouldExclude == some(patterns, node.path)
         IN  IF shouldExclude.threw THEN ThrownTree
             ELSE ExcludeEntries(t, Tail(entries), patterns,
                                 IF ~shouldExclude.value
                                 THEN MapSet(result, key, Head(entries).value)
                                 ELSE result)

excludeFromTagTree(t, excludePatterns) ==
    IF Len(excludePatterns) = 0 THEN ReturnedTree(t.tree)
    ELSE ExcludeEntries(t, t.tree, parseTagPatterns(join(excludePatterns, ",")), <<>>)

\* ---------------------------------------------------------------------------
\* matchesTagPattern on its own
\* ---------------------------------------------------------------------------
TagPaths ==
    {<<"f", "o", "o", "b", "a", "r">>,
     <<"b", "a", "r", "f", "o", "o">>,
     <<"f", "o", "o">>,
     <<"F", "o", "o", "B", "a", "r">>,
     <<"#", "f", "o", "o">>,
     <<"f", "o">>,
     <<"f", ".", "o">>,
     <<"f", "x", "o">>,
     <<"f", "(", "o">>,
     <<"a", "/", "b">>,
     <<"p", "r", "o", "j", "e", "c", "t">>,
     <<"p", "r", "o", "j", "e", "c", "t", "/", "s", "u", "b">>,
     <<>>}

\* Wildcard patterns and patterns between slashes, three of them malformed.
TagPatterns ==
    {<<"f", "o", "o", "*">>,
     <<"*", "f", "o", "o">>,
     <<"f", "o", "o">>,
     <<"f", ".", "o">>,
     <<"f", "*", "o">>,
     <<"*">>,
     <<"*", "*">>,
     <<"#", "f", "o", "o">>,
     <<"F", "O", "O", "*">>,
     <<"f", "(", "o">>,
     <<"a", "/", "b">>,
     <<"p", "r", "o", "j", "e", "c", "t", "*">>,
     <<>>,
     <<"/", "^", "f", "o", "o", ".", "*", "$", "/">>,
     <<"/", "f", "o", "o", "/">>,
     <<"/", "f", ".", "o", "/">>,
     <<"/">>,
     <<"#", "/", "^", "f", "o", "o", "/">>,
     <<"/", "(", "/">>,
     <<"/", "[", "/">>,
     <<"/", "*", "/">>,
     <<"/", "f", ")", "/">>,
     <<"/", "^", "*", "/">>}

InitMatch ==
    /\ heap = MirrorHeap
    /\ cache = NewCache
    /\ store = <<>>
    /\ lastWrite = NothingWritten
    /\ tagTree = NoTagTree
    /\ oldTagTree = NoTagTree
    /\ noteCountCache = NullNoteCountCache
    /\ matched = NoCall
    /\ filtered = NoCall
    /\ foundNode = NoCall
    /\ hub = NewHub
    /\ items = NoItems
    /\ lastOp = Op("new", "-", "-")

MatchesTagPattern(tagPath, pattern) ==
    /\ matched' = [called |-> TRUE, tagPath |-> tagPath, pattern |-> pattern,
                   result |-> matchesTagPattern(tagPath, pattern)]
    /\ lastOp' = Op("matchesTagPattern", "-", "-")
    /\ UNCHANGED <<heap, cache, store, lastWrite, tagTree, oldTagTree, noteCountCache, filtered,
                   foundNode, hub, items>>

NextMatch == \E tagPath \in TagPaths, pattern \in TagPatterns : MatchesTagPattern(tagPath, pattern)

SpecMatch == InitMatch /\ [][NextMatch]_vars

\* ---------------------------------------------------------------------------
\* The filters over a built tree
\* ---------------------------------------------------------------------------
FilterHeap ==
    LET record(tags) == [preview |-> Null, featureImage |-> Null, metadata |-> Null,
                         tags |-> tags]
    IN  [r \in {"f1", "f2", "f3"} |->
            CASE r = "f1" -> record(TagList(<<<<"p", "r", "o", "j", "e", "c", "t">>, <<"p", "r", "o", "j", "e", "c", "t", "/", "s", "u", "b">>>>))
              [] r = "f2" -> record(TagList(<<<<"o", "t", "h", "e", "r">>>>))
              [] r = "f3" -> record(TagList(<<<<"s", "u", "b">>>>))]

\* The includePatterns and excludePatterns handed in.
PatternLists ==
    {<<>>,
     <<<<"p", "r", "o", "j", "e", "c", "t", "*">>>>,
     <<<<"p", "r", "o", "j", "e", "c", "t">>>>,
     <<<<"p", "r", "o", "j", "e", "c", "t", "/", "s", "u", "b">>>>,
     <<<<"*", "s", "u", "b">>>>,
     <<<<"P", "R", "O", "J", "E", "C", "T">>>>,
     <<<<"/", "^", "p", "r", "o", "j", "e", "c", "t", "$", "/">>>>,
     <<<<"/", "(", "/">>, <<"p", "r", "o", "j", "e", "c", "t">>>>,
     <<<<"p", "r", "o", "j", "e", "c", "t">>, <<"/", "(", "/">>>>,
     <<<<"/", "(", "/">>>>,
     <<<<"/", "[", "/">>, <<"*", "s", "u", "b">>>>,
     <<<<" ", "o", "t", "h", "e", "r", " ", ",", " ", "p", "r", "o", "j", "e", "c", "t", "/", "s", "u", "b">>>>,
     <<<<"s", "u", "b">>, <<"o", "t", "h", "e", "r">>>>,
     <<<<"/", "o", ",", "*", "t", "h", "e", "r", "/">>>>}

InitFilter ==
    /\ heap = FilterHeap
    /\ cache \in {initialize(NewCache, filesWithPaths) : filesWithPaths \in BulkLoads}
    /\ store = <<>>
    /\ lastWrite = NothingWritten
    /\ tagTree = NoTagTree
    /\ oldTagTree = NoTagTree
    /\ noteCountCache = NullNoteCountCache
    /\ matched = NoCall
    /\ filtered = NoCall
    /\ foundNode = NoCall
    /\ hub = NewHub
    /\ items = NoItems
    /\ lastOp = Op("new", "-", "-")

FilterTagTree(includePatterns) ==
    /\ filtered' = [called |-> TRUE, op |-> "filterTagTree", t |-> tagTree,
                    patterns |-> includePatterns,
                    result |-> filterTagTree(tagTree, includePatterns)]
    /\ lastOp' = Op("filterTagTree", "-", "-")
    /\ UNCHANGED <<heap, cache, store, lastWrite, tagTree, oldTagTree, noteCountCache, matched,
                   foundNode, hub, items>>

ExcludeFromTagTree(excludePatterns) ==
    /\ filtered' = [called |-> TRUE, op |-> "excludeFromTagTree", t |-> tagTree,
                    patterns |-> excludePatterns,
                    result |-> excludeFromTagTree(tagTree, excludePatterns)]
    /\ lastOp' = Op("excludeFromTagTree", "-", "-")
    /\ UNCHANGED <<heap, cache, store, lastWrite, tagTree, oldTagTree, noteCountCache, matched,
                   foundNode, hub, items>>

NextFilter ==
    \/ Build(NoPatterns)
    \/ \E includePatterns \in PatternLists : FilterTagTree(includePatterns)
    \/ \E excludePatterns \in PatternLists : ExcludeFromTagTree(excludePatterns)

SpecFilter == InitFilter /\ [][NextFilter]_vars

\* ---------------------------------------------------------------------------
\* Properties of the tag patterns
\* ---------------------------------------------------------------------------
\* The whole of str matches pat when each '*' of pat stands for any run of
\* characters, every other character stands for itself, and letter case is ignored.
RECURSIVE WildcardMatch(_, _)
WildcardMatch(str, pat) ==
    IF pat = <<>> THEN str = <<>>
    ELSE IF Head(pat) = "*"
    THEN \E n \in 0..Len(str) : WildcardMatch(SubSeq(str, n + 1, Len(str)), Tail(pat))
    ELSE /\ str # <<>>
         /\ LowerChar(Head(str)) = LowerChar(Head(pat))
         /\ WildcardMatch(Tail(str), Tail(pat))

\* A pattern that starts and ends with a slash.
Wrapped(pattern) == Len(pattern) > 0 /\ pattern[1] = "/" /\ pattern[Len(pattern)] = "/"

\* "foo*" and "/^foo.*$/" both match "foobar" and both reject "barfoo".
FooExamples ==
    /\ matchesTagPattern(<<"f", "o", "o", "b", "a", "r">>, <<"f", "o", "o", "*">>) = Returned(TRUE)
    /\ matchesTagPattern(<<"b", "a", "r", "f", "o", "o">>, <<"f", "o", "o", "*">>) = Returned(FALSE)
    /\ matchesTagPattern(<<"f", "o", "o", "b", "a", "r">>, <<"/", "^", "f", "o", "o", ".", "*", "$", "/">>) = Returned(TRUE)
    /\ matchesTagPattern(<<"b", "a", "r", "f", "o", "o">>, <<"/", "^", "f", "o", "o", ".", "*", "$", "/">>) = Returned(FALSE)

\* C17 as amended: for a pattern that is not wrapped in slashes once a leading
\* '#' is taken off, matchesTagPattern(tagPath, pattern) is true exactly when
\* the whole tag path, a leading '#' taken off it too, matches the rest of the
\* pattern case-insensitively, each '*' standing for any run of characters and
\* every other character taken literally; "foo*" matches "foobar" and rejects
\* "barfoo", as does "/^foo.*$/".
C17_WildcardMatchesWholePathAfterMarker ==
    /\ FooExamples
    /\ (matched.called /\ ~Wrapped(Unmarked(matched.pattern)))
          => matched.result =
                Returned(WildcardMatch(Unmarked(matched.tagPath), Unmarked(matched.pattern)))

\* "f.o" was matched against "fxo" and rejected it: the dot stands for itself
C17_Witness ==
    /\ matched.called
    /\ matched.pattern = <<"f", ".", "o">>
    /\ matched.tagPath = <<"f", "x", "o">>
    /\ matched.result = Returned(FALSE)

\* C17 as stated: for a pattern that is not wrapped in slashes,
\* matchesTagPattern(tagPath, pattern) is true exactly when the whole tag path
\* matches the pattern case-insensitively, each '*' standing for any run of
\* characters and every other character, '#' included, taken literally.
C17_AsStated ==
    (matched.called /\ ~Wrapped(matched.pattern))
        => matched.result = Returned(WildcardMatch(matched.tagPath, matched.pattern))

\* ---------------------------------------------------------------------------
\* Properties of the filters
\* ---------------------------------------------------------------------------
\* The nodes of build result t that the returned Map still leads to.
KeptNodes(t, result) == Reached(t, {e.value : e \in Entries(result.tree)})

\* The path of a node and the paths of its ancestors.
PathPrefixes(path) ==
    {join(SubSeq(split(path, "/"), 1, i), "/") : i \in 1..Len(split(path, "/"))}

\* Some pattern of the list matches the path.
MatchesAny(patterns, path) ==
    \E i \in 1..Len(patterns) : matchesTagPattern(path, patterns[i]) = Returned(TRUE)

\* The patterns of a list as the filters read them.
PatternsOf(patterns) == parseTagPatterns(join(patterns, ","))

\* C15: filterTagTree with a non-empty pattern list keeps a node, at any depth
\* of the tree, if the node's own path or an ancestor prefix of it matches at
\* least one include pattern.
C15_AsStated ==
    (filtered.called /\ filtered.op = "filterTagTree" /\ filtered.patterns # <<>>)
        => \A node \in MapKeys(filtered.t.nodes) :
              (\E prefix \in PathPrefixes(NodeOf(filtered.t, node).path) :
                    MatchesAny(PatternsOf(filtered.patterns), prefix))
                => node \in KeptNodes(filtered.t, filtered.result)

\* C16: excludeFromTagTree drops a node only if the node's own path matches an
\* exclude pattern: a node whose path matches no pattern stays in the result,
\* whatever happens to its ancestors.
C16_AsStated ==
    (filtered.called /\ filtered.op = "excludeFromTagTree" /\ filtered.patterns # <<>>)
        => \A node \in MapKeys(filtered.t.nodes) :
              node \notin KeptNodes(filtered.t, filtered.result)
                => MatchesAny(PatternsOf(filtered.patterns), NodeOf(filtered.t, node).path)

\* A pattern between slashes whose expression does not compile.
Malformed(pattern) ==
    /\ Wrapped(Unmarked(pattern))
    /\ RegExp(SubSeq(Unmarked(pattern), 2, Len(Unmarked(pattern)) - 1)).threw

WellFormed(patterns) == SelectSeq(patterns, LAMBDA pattern : ~Malformed(pattern))

\* C18: a malformed pattern between slashes raises out of none of
\* matchesTagPattern, filterTagTree and excludeFromTagTree: it matches no tag
\* path, and the entries of the tree are kept or dropped as the other patterns
\* of the list decide.
C18_MalformedPatternMatchesNothing ==
    /\ \A pattern \in {given \in TagPatterns : Malformed(given)} :
          \A tagPath \in TagPaths : matchesTagPattern(tagPath, pattern) = Returned(FALSE)
    /\ (filtered.called /\ filtered.patterns # <<>>)
          => /\ ~filtered.result.threw
             /\ \A i \in 1..Len(filtered.t.tree) :
                  LET root == filtered.t.tree[i]
                      path == NodeOf(filtered.t, root.value).path
                      others == WellFormed(PatternsOf(filtered.patterns))
                  IN  MapHas(filtered.result.tree, root.key)
                        <=> IF filtered.op = "filterTagTree"
                            THEN \E prefix \in PathPrefixes(path) : MatchesAny(others, prefix)
                            ELSE ~MatchesAny(others, path)

\* filterTagTree was called with the malformed "/(/" before "project" on a tree
\* with the roots project and other, and returned the root project alone
C18_Witness ==
    /\ filtered.called
    /\ filtered.op = "filterTagTree"
    /\ filtered.patterns = <<<<"/", "(", "/">>, <<"p", "r", "o", "j", "e", "c", "t">>>>
    /\ Len(filtered.t.tree) = 2
    /\ MapHas(filtered.t.tree, <<"o", "t", "h", "e", "r">>)
    /\ ~filtered.result.threw
    /\ MapKeys(filtered.result.tree) = {<<"p", "r", "o", "j", "e", "c", "t">>}

\* ---------------------------------------------------------------------------
\* The change notification hub and the FileItem components that subscribe to it
\* ---------------------------------------------------------------------------
\* Most subscriptions ever issued.
MaxSubscriptions == 2

\* db.onFileContentChange(path, callback): the hub with one more subscriber;
\* the disposer returned is named by the subscriber's id.
onFileContentChange(h, path, item) ==
    [h EXCEPT !.issued = @ + 1,
              !.subscribers = @ \cup {[id |-> h.issued + 1, path |-> path, item |-> item]}]

\* the subscriber next in line of a dispatch under way is dropped with it
unsubscribe_dropsNext(h, id) ==
    [h EXCEPT !.subscribers = {s \in @ : s.id # id},
              !.disposed = @ \cup {id},
              !.queue = IF @ # <<>> /\ \E s \in h.subscribers : s.id = id THEN Tail(@) ELSE @]

\* A disposer called: the subscriber is taken out if it is still in.
unsubscribe(h, id) ==
    [h EXCEPT !.subscribers = {s \in @ : s.id # id},
              !.disposed = @ \cup {id}]

\* The diff of a patch: the content fields it sets to a value they did not have.
ChangesOf(file, updates) ==
    [field \in {f \in {"preview", "featureImage"} :
                    updates[f] # Undefined /\ updates[f] # file[f]} |-> updates[field]]

\* The orders in which the subscribers of a set may be called.
Orders(subscribers) ==
    {order \in [1..Cardinality(subscribers) -> subscribers] :
        \A i, j \in 1..Cardinality(subscribers) : i # j => order[i] # order[j]}

\* Dispatch begins: the subscribers to call are snapshot into queue, in the order given.
Dispatch(h, path, changes, order) ==
    [h EXCEPT !.path = path, !.changes = changes,
              !.targets = {order[i].id : i \in 1..Len(order)},
              !.queue = order, !.delivered = <<>>]

Dispatching == hub.queue # <<>>

\* The settings and the vault a FileItem reads: previews and feature images are
\* shown, the files are markdown files, and the image "x" is in the vault.
getResourcePath(imagePath) == IF imagePath = "x" THEN "app://x" ELSE Null

\* an absent field is shown as cleared
FileItemCallback_clearsAbsent(item, changes) ==
    [item EXCEPT
        !.previewText = IF "preview" \in DOMAIN changes /\ Truthy(changes.preview)
                        THEN changes.preview ELSE "",
        !.featureImageUrl = IF "featureImage" \in DOMAIN changes /\ Truthy(changes.featureImage)
                            THEN getResourcePath(changes.featureImage) ELSE Null,
        !.tags = IF "tags" \in DOMAIN changes /\ ~changes.tags.isNull
                 THEN changes.tags.list ELSE <<>>]

\* The callback FileItem hands to onFileContentChange.
FileItemCallback(item, changes) ==
    [item EXCEPT
        !.previewText = IF "preview" \in DOMAIN changes
                        THEN (IF Truthy(changes.preview) THEN changes.preview ELSE "")
                        ELSE @,
        !.featureImageUrl = IF "featureImage" \in DOMAIN changes
                            THEN (IF Truthy(changes.featureImage)
                                  THEN getResourcePath(changes.featureImage) ELSE Null)
                            ELSE @,
        !.tags = IF "tags" \in DOMAIN changes
                 THEN (IF changes.tags.isNull THEN <<>> ELSE changes.tags.list)
                 ELSE @]

\* What a FileItem loads when its effect runs: the display values of its file.
InitialLoad(h, c, path, id) ==
    LET file == getFile(c, path)
    IN  [mounted |-> TRUE, path |-> path, unsubscribe |-> id,
         previewText |-> IF Truthy(file) /\ Truthy(h[file].preview) THEN h[file].preview ELSE "",
         featureImageUrl |-> IF Truthy(file) /\ Truthy(h[file].featureImage)
                             THEN getResourcePath(h[file].featureImage) ELSE Null,
         tags |-> IF Truthy(file) /\ ~h[file].tags.isNull THEN h[file].tags.list ELSE <<>>]

HubPatches ==
    {[NoPatch EXCEPT !.preview = "x"],
     [NoPatch EXCEPT !.preview = Null],
     [NoPatch EXCEPT !.featureImage = "x"],
     [NoPatch EXCEPT !.preview = "x", !.featureImage = Null]}

InitHub ==
    /\ heap = MirrorHeap
    /\ cache = initialize(NewCache, <<[path |-> "a.md", data |-> "o1"],
                                      [path |-> "x/b.md", data |-> "o2"]>>)
    /\ store = SetEach(<<>>, <<[path |-> "a.md", data |-> "o1"],
                               [path |-> "x/b.md", data |-> "o2"]>>)
    /\ lastWrite = NothingWritten
    /\ tagTree = NoTagTree
    /\ oldTagTree = NoTagTree
    /\ noteCountCache = NullNoteCountCache
    /\ matched = NoCall
    /\ filtered = NoCall
    /\ foundNode = NoCall
    /\ hub = NewHub
    /\ items = NoItems
    /\ lastOp = Op("new", "-", "-")

outsideHub ==
    <<cache, store, lastWrite, tagTree, oldTagTree, noteCountCache, matched, filtered,
      foundNode>>

\* The effect of a FileItem runs: initial load, then subscription.
Mount(item, path) ==
    /\ ~Dispatching
    /\ ~items[item].mounted
    /\ hub.issued < MaxSubscriptions
    /\ hub' = onFileContentChange(hub, path, item)
    /\ items' = [items EXCEPT ![item] = InitialLoad(heap, cache, path, hub.issued + 1)]
    /\ lastOp' = Op("onFileContentChange", path, item)
    /\ UNCHANGED heap
    /\ UNCHANGED outsideHub

\* the cleanup leaves the subscription in the hub
cleanup_none(h, fileItem) == h

\* The cleanup of the effect: return () => { unsubscribe(); }
cleanup(h, fileItem) == unsubscribe(h, fileItem.unsubscribe)

\* The FileItem is taken down: the cleanup of its effect runs.
Unmount(item) ==
    /\ ~Dispatching
    /\ items[item].mounted
    /\ hub' = cleanup(hub, items[item])
    /\ items' = [items EXCEPT ![item] = Unmounted]
    /\ lastOp' = Op("unmount", "-", item)
    /\ UNCHANGED heap
    /\ UNCHANGED outsideHub

\* The file or a display setting of a mounted FileItem changes: the cleanup of
\* the effect runs, then the effect runs again for the file now shown.
Rerender(item, path) ==
    /\ ~Dispatching
    /\ items[item].mounted
    /\ hub.issued < MaxSubscriptions
    /\ hub' = onFileContentChange(cleanup(hub, items[item]), path, item)
    /\ items' = [items EXCEPT ![item] = InitialLoad(heap, cache, path, hub.issued + 1)]
    /\ lastOp' = Op("rerender", path, item)
    /\ UNCHANGED heap
    /\ UNCHANGED outsideHub

\* A disposer is called again after it was called.
UnsubscribeAgain(id) ==
    /\ ~Dispatching
    /\ id \in hub.disposed
    /\ hub' = unsubscribe(hub, id)
    /\ lastOp' = Op("unsubscribe", "-", "-")
    /\ UNCHANGED <<heap, items>>
    /\ UNCHANGED outsideHub

\* The store's updateFileContent: both layers are written, then the diff is
\* dispatched to the subscribers of the path, in some order.
HubUpdateFileContent(path, updates) ==
    /\ ~Dispatching
    /\ hasFile(cache, path)
    /\ heap' = updateFileContent(heap, cache, path, updates)
    /\ LET changes == ChangesOf(heap[getFile(cache, path)], updates)
       IN  IF DOMAIN changes = {}
           THEN hub' = Dispatch(hub, path, changes, <<>>)
           ELSE \E order \in Orders({s \in hub.subscribers : s.path = path}) :
                    hub' = Dispatch(hub, path, changes, order)
    /\ lastOp' = Op("updateFileContent", path, "-")
    /\ UNCHANGED items
    /\ UNCHANGED outsideHub

\* The next callback of the snapshot is called; the callback may call a
\* disposer (id 0: it calls none).
Deliver(id) ==
    /\ Dispatching
    /\ LET s == Head(hub.queue)
           called == [hub EXCEPT !.queue = Tail(@), !.delivered = Append(@, s.id)]
       IN  /\ items' = IF items[s.item].mounted /\ items[s.item].unsubscribe = s.id
                       THEN [items EXCEPT ![s.item] = FileItemCallback(@, hub.changes)]
                       ELSE items
           /\ hub' = IF id = 0 THEN called ELSE unsubscribe(called, id)
    /\ lastOp' = Op("callback", hub.path, "-")
    /\ UNCHANGED heap
    /\ UNCHANGED outsideHub

NextHub ==
    \/ \E item \in Items, path \in Paths : Mount(item, path)
    \/ \E item \in Items, path \in Paths : Rerender(item, path)
    \/ \E item \in Items : Unmount(item)
    \/ \E id \in 1..MaxSubscriptions : UnsubscribeAgain(id)
    \/ \E path \in Paths, updates \in HubPatches : HubUpdateFileContent(path, updates)
    \/ \E id \in 0..hub.issued : Deliver(id)

SpecHub == InitHub /\ [][NextHub]_vars

\* ---------------------------------------------------------------------------
\* Properties of the change notification hub
\* ---------------------------------------------------------------------------
\* The subscribers still to call in the dispatch under way.
Waiting == {hub.queue[i].id : i \in 1..Len(hub.queue)}

Called(id) == Cardinality({i \in 1..Len(hub.delivered) : hub.delivered[i] = id})

\* In every state of a dispatch: no subscriber of another path is called or
\* waiting, the subscribers of the path all wait right after the mutation, and
\* every subscriber of the snapshot was called once or still waits.
DispatchedOnce ==
    /\ \A s \in hub.subscribers :
          /\ (s.path # hub.path) => (Called(s.id) = 0 /\ s.id \notin Waiting)
          /\ (lastOp.op = "updateFileContent" /\ DOMAIN hub.changes # {} /\ s.path = hub.path)
                => (s.id \in Waiting)
    /\ \A id \in hub.targets : Called(id) + (IF id \in Waiting THEN 1 ELSE 0) = 1
    /\ (~Dispatching) => (\A id \in hub.targets : Called(id) = 1)

\* A mutation step publishes the diff of the record before and after it; a
\* callback step changes at most the FileItem called, and of it only what
\* the diff holds.
DiffOfMutation ==
    /\ (lastOp'.op = "updateFileContent")
          => LET file == getFile(cache, lastOp'.path)
             IN  /\ hub'.path = lastOp'.path
                 /\ DOMAIN hub'.changes
                      = {field \in {"preview", "featureImage"} :
                              heap'[file][field] # heap[file][field]}
                 /\ \A field \in DOMAIN hub'.changes :
                      hub'.changes[field] = heap'[file][field]
    /\ (lastOp'.op = "callback")
          => \A item \in Items :
                /\ (item # Head(hub.queue).item) => (items'[item] = items[item])
                /\ ("preview" \notin DOMAIN hub.changes)
                      => (items'[item].previewText = items[item].previewText)
                /\ ("featureImage" \notin DOMAIN hub.changes)
                      => (items'[item].featureImageUrl = items[item].featureImageUrl)
                /\ ("tags" \notin DOMAIN hub.changes)
                      => (items'[item].tags = items[item].tags)

\* C19: a content mutation of path p is dispatched to every subscriber
\* registered for p and to no subscriber of another path, each called exactly
\* once by the end of the dispatch, with a diff that holds exactly the fields
\* the mutation changed, each with its new value (preview alone when only
\* preview changed); a callback leaves what its FileItem shows of a field
\* that is absent from the diff as it was, and leaves the other FileItems alone.
C19_SubscriberGetsChangedFieldsOnce == []DispatchedOnce /\ [][DiffOfMutation]_vars

\* i1 shows a.md and i2 shows x/b.md; the preview of a.md was set to "x" when
\* its feature image was set already: the callback of i1 was called once with
\* {preview: "x"}, i1 shows the new preview and the image and tag it showed
\* before, and i2 was not called
C19_Witness ==
    /\ lastOp.op = "callback"
    /\ ~Dispatching
    /\ hub.path = "a.md"
    /\ hub.changes = [preview |-> "x"]
    /\ items["i1"].mounted /\ items["i1"].path = "a.md"
    /\ items["i2"].mounted /\ items["i2"].path = "x/b.md"
    /\ hub.delivered = <<items["i1"].unsubscribe>>
    /\ items["i1"].previewText = "x"
    /\ items["i1"].featureImageUrl = "app://x"
    /\ items["i1"].tags = <<<<"t">>>>
    /\ items["i2"].previewText = ""

\* C20: a disposer called twice leaves the hub as a disposer called once; a
\* disposer called from inside a callback during a dispatch neither stops the
\* dispatch nor makes it pass over a subscriber of the snapshot: each of them
\* is called exactly once; and a mutation's dispatch calls no subscriber whose
\* disposer was called before the mutation.
C20_UnsubscribeIdempotentAndSafeInDispatch ==
    /\ \A id \in 1..MaxSubscriptions :
          unsubscribe(unsubscribe(hub, id), id) = unsubscribe(hub, id)
    /\ \A id \in hub.disposed : \A s \in hub.subscribers : s.id # id
    /\ hub.targets = Waiting \cup {hub.delivered[i] : i \in 1..Len(hub.delivered)}
    /\ \A i, j \in 1..Len(hub.delivered) : i # j => hub.delivered[i] # hub.delivered[j]
    /\ \A i \in 1..Len(hub.delivered) : hub.delivered[i] \notin Waiting
    /\ \A i, j \in 1..Len(hub.queue) : i # j => hub.queue[i].id # hub.queue[j].id
    /\ lastOp.op = "updateFileContent" => hub.targets \cap hub.disposed = {}

\* two subscribers of a.md are in the snapshot; the callback of the first was
\* called and called the disposer of the second, which is still to be called
C20_Witness ==
    /\ lastOp.op = "callback"
    /\ Len(hub.delivered) = 1
    /\ Len(hub.queue) = 1
    /\ Head(hub.queue).id \in hub.disposed
    /\ hub.delivered[1] \notin hub.disposed

\* ---------------------------------------------------------------------------
\* The shape of a built tag tree
\* ---------------------------------------------------------------------------
\* The key of the node at depth d (0 for the root) of a tag without its marker.
PrefixKey(tag, d) == Folded(join(SubSeq(split(tag, "/"), 1, d + 1), "/"))

HasSlash(path) == \E n \in 1..Len(path) : path[n] = "/"

\* C21: for every tag of a scanned record, with segments s0/.../sk, the build
\* holds a node for each prefix of depth 0..k; the node of depth 0 is an entry
\* of the returned tree map, the node of each depth i > 0 is a child of the
\* node of depth i - 1 under the key of its own lowercased path, and the
\* returned tree map holds nodes of depth 0 only.
C21_PrefixNodesLinkedUnderParents ==
    \A patterns \in BuildPatterns :
        LET t == buildTagTreeFromDatabase(heap, cache, patterns)
            tags == TagsInScanOrder(heap, Scanned(cache, patterns))
        IN  /\ \A n \in 1..Len(tags) : \A d \in 0..(Len(split(tags[n], "/")) - 1) :
                  LET key == PrefixKey(tags[n], d)
                  IN  /\ MapHas(t.nodes, key)
                      /\ Folded(NodeOf(t, key).path) = key
                      /\ (d = 0) => (MapHas(t.tree, key) /\ MapGet(t.tree, key) = key)
                      /\ (d > 0) =>
                            LET parent == NodeOf(t, PrefixKey(tags[n], d - 1))
                            IN  /\ MapHas(parent.children, key)
                                /\ MapGet(parent.children, key) = key
            /\ \A e \in Entries(t.tree) :
                  /\ e.key = e.value
                  /\ MapHas(t.nodes, e.value)
                  /\ ~HasSlash(NodeOf(t, e.value).path)
                  /\ \A key \in MapKeys(t.nodes) :
                        ~MapHas(NodeOf(t, key).children, e.key)

\* a.md tagged p/s/u was built into a chain of three nodes: p is the only
\* entry of the tree map, p/s is a child of p and p/s/u a child of p/s
C21_Witness ==
    /\ lastOp.op = "buildTagTreeFromDatabase"
    /\ getFile(cache, "a.md") = "t7"
    /\ ~hasFile(cache, "x/b.md")
    /\ MapKeys(tagTree.tree) = {<<"p">>}
    /\ MapKeys(NodeOf(tagTree, <<"p">>).children) = {<<"p", "/", "s">>}
    /\ MapKeys(NodeOf(tagTree, <<"p", "/", "s">>).children) = {<<"p", "/", "s", "/", "u">>}
    /\ NodeOf(tagTree, <<"p", "/", "s", "/", "u">>).children = <<>>
    /\ NodeOf(tagTree, <<"p", "/", "s", "/", "u">>).notesWithTag = {"a.md"}

\* ---------------------------------------------------------------------------
\* The subscriptions of the FileItem components
\* ---------------------------------------------------------------------------
\* The subscriptions in the hub that call the callback of a FileItem.
LiveSubscriptions(item) == {s \in hub.subscribers : s.item = item}

Mounted == {item \in Items : items[item].mounted}

\* C22: a FileItem has at most one subscription in the hub at any time, and
\* it is the one its last effect run made, for the path of the file it shows:
\* the subscription of an earlier run was disposed before the effect ran again,
\* a FileItem taken down has none, and the hub never holds more subscriptions
\* than there are FileItems mounted.
C22_OneSubscriptionPerMountedItem ==
    /\ \A item \in Items :
          /\ Cardinality(LiveSubscriptions(item)) <= 1
          /\ (~items[item].mounted) => (LiveSubscriptions(item) = {})
          /\ \A s \in LiveSubscriptions(item) :
                /\ s.id = items[item].unsubscribe
                /\ s.path = items[item].path
          /\ (lastOp.op \in {"onFileContentChange", "rerender"} /\ lastOp.arg = item)
                => (LiveSubscriptions(item)
                      = {[id |-> hub.issued, path |-> lastOp.path, item |-> item]})
    /\ Cardinality(hub.subscribers) <= Cardinality(Mounted)
    /\ \A id \in 1..hub.issued :
          (\A item \in Mounted : items[item].unsubscribe # id) => (id \in hub.disposed)

\* i1 showed a.md and now shows x/b.md: its first subscription was disposed
\* and its second, for x/b.md, is the only subscription in the hub
C22_Witness ==
    /\ lastOp = Op("rerender", "x/b.md", "i1")
    /\ hub.issued = 2
    /\ hub.disposed = {1}
    /\ hub.subscribers = {[id |-> 2, path |-> "x/b.md", item |-> "i1"]}
    /\ items["i1"].mounted /\ items["i1"].path = "x/b.md"
    /\ ~items["i2"].mounted

\* ---------------------------------------------------------------------------
\* Batch operations of the cache against their single operations
\* ---------------------------------------------------------------------------
\* The batch operations on their own, on a new cache and on every cache a bulk
\* load yields.
InitBatch ==
    /\ heap = MirrorHeap
    /\ cache \in {NewCache}
                \cup {initialize(NewCache, filesWithPaths) : filesWithPaths \in BulkLoads}
    /\ store = <<>>
    /\ lastWrite = NothingWritten
    /\ tagTree = NoTagTree
    /\ oldTagTree = NoTagTree
    /\ noteCountCache = NullNoteCountCache
    /\ matched = NoCall
    /\ filtered = NoCall
    /\ foundNode = NoCall
    /\ hub = NewHub
    /\ items = NoItems
    /\ lastOp = Op("new", "-", "-")

NextBatch ==
    \/ \E updates \in BatchUpdates : BatchUpdate(updates)
    \/ \E updates \in BatchContentUpdates : BatchUpdateFileContent(updates)

SpecBatch == InitBatch /\ [][NextBatch]_vars

\* updateFile called on each entry of a list, in list order.
RECURSIVE UpdateFileInTurn(_, _)
UpdateFileInTurn(c, updates) ==
    IF updates = <<>> THEN c
    ELSE LET last == updates[Len(updates)]
         IN  updateFile(UpdateFileInTurn(c, SubSeq(updates, 1, Len(updates) - 1)),
                        last.path, last.data)

\* updateFileContent called on each entry of a list, in list order.
RECURSIVE UpdateFileContentInTurn(_, _, _)
UpdateFileContentInTurn(h, c, updates) ==
    IF updates = <<>> THEN h
    ELSE LET last == updates[Len(updates)]
         IN  updateFileContent(
                UpdateFileContentInTurn(h, c, SubSeq(updates, 1, Len(updates) - 1)),
                c, last.path,
                [preview |-> last.preview, featureImage |-> last.featureImage,
                 metadata |-> last.metadata])

\* C23: batchUpdate(updates) leaves the cache as updateFile called on each
\* entry in list order leaves it, so that for a path listed twice the later
\* entry is the one held; batchUpdateFileContent(updates) leaves the records
\* as updateFileContent called on each entry in list order leaves them.
C23_BatchIsSequential ==
    /\ \A updates \in BatchUpdates :
          /\ batchUpdate(cache, updates) = UpdateFileInTurn(cache, updates)
          /\ \A i \in 1..Len(updates) :
                (\A j \in (i + 1)..Len(updates) : updates[j].path # updates[i].path)
                    => (getFile(batchUpdate(cache, updates), updates[i].path) = updates[i].data)
    /\ \A updates \in BatchContentUpdates :
          batchUpdateFileContent(heap, cache, updates)
              = UpdateFileContentInTurn(heap, cache, updates)

\* batchUpdate was called on a cache never written to and left a.md alone in
\* it, holding o2, as it does when handed a.md with o1 and then a.md with o2
C23_Witness ==
    /\ lastOp.op = "batchUpdate"
    /\ ~isReady(cache)
    /\ getAllFilesWithPaths(cache) = <<[path |-> "a.md", data |-> "o2"]>>
    /\ cache = batchUpdate(NewCache, <<[path |-> "a.md", data |-> "o1"],
                                        [path |-> "a.md", data |-> "o2"]>>)
    /\ cache = updateFile(updateFile(NewCache, "a.md", "o1"), "a.md", "o2")

\* ---------------------------------------------------------------------------
\* Records in excluded folders
\* ---------------------------------------------------------------------------
\* The cache without the entries whose path lies in a folder of the patterns.
WithoutExcluded(c, patterns) ==
    [c EXCEPT !.memoryMap =
        SelectSeq(@, LAMBDA e : ~isPathInExcludedFolder(e.key, patterns.patterns))]

\* C24: a build that is given excluded folder patterns returns what a build
\* over the cache without the records in those folders returns: whatever its
\* tags are, such a record creates no node, is in no notesWithTag, decides the
\* casing of no node and adds nothing to untagged.
C24_ExcludedRecordContributesNothing ==
    \A patterns \in {given \in BuildPatterns : given.given} :
        LET t == buildTagTreeFromDatabase(heap, cache, patterns)
            excluded == {p \in MapKeys(cache.memoryMap) :
                            isPathInExcludedFolder(p, patterns.patterns)}
        IN  /\ t = buildTagTreeFromDatabase(heap, WithoutExcluded(cache, patterns), patterns)
            /\ t = buildTagTreeFromDatabase(heap, WithoutExcluded(cache, patterns), NoPatterns)
            /\ \A key \in MapKeys(t.nodes) : NodeOf(t, key).notesWithTag \cap excluded = {}
            /\ (excluded = MapKeys(cache.memoryMap))
                  => (t.nodes = <<>> /\ t.tree = <<>> /\ t.untagged = 0)

\* x/b.md, tagged P/S/v and q, was scanned first but lies in the excluded
\* folder x; a.md is tagged p/s/u: the built tree is the chain p, p/s, p/s/u
\* in the casing of a.md, with a.md as its only file and no node q
C24_Witness ==
    /\ lastOp.op = "buildTagTreeFromDatabase"
    /\ getAllFilesWithPaths(cache) = <<[path |-> "x/b.md", data |-> "t8"],
                                       [path |-> "a.md", data |-> "t7"]>>
    /\ MapKeys(tagTree.nodes) = {<<"p">>, <<"p", "/", "s">>, <<"p", "/", "s", "/", "u">>}
    /\ NodeOf(tagTree, <<"p">>).path = <<"p">>
    /\ NodeOf(tagTree, <<"p", "/", "s">>).path = <<"p", "/", "s">>
    /\ FilesUnder(tagTree, <<"p">>) = {"a.md"}
    /\ tagTree.untagged = 0

\* ---------------------------------------------------------------------------
\* Content patches to paths the cache does not hold
\* ---------------------------------------------------------------------------
\* The entries of a batch of content patches whose path the cache holds.
ForHeldPaths(c, updates) == SelectSeq(updates, LAMBDA update : hasFile(c, update.path))

\* Whatever patch is handed over for a path without a record, no record is
\* changed; a batch changes what its entries for held paths change.
PatchOfMissingPathChangesNoRecord ==
    /\ \A path \in Paths : \A updates \in Patches :
          (~hasFile(cache, path)) => (updateFileContent(heap, cache, path, updates) = heap)
    /\ \A updates \in BatchContentUpdates :
          /\ batchUpdateFileContent(heap, cache, updates)
                = batchUpdateFileContent(heap, cache, ForHeldPaths(cache, updates))
          /\ (ForHeldPaths(cache, updates) = <<>>)
                => (batchUpdateFileContent(heap, cache, updates) = heap)

\* A call of updateFileContent for a path without a record, or of
\* batchUpdateFileContent, leaves the entries of the cache as they were.
PatchCreatesNoEntry ==
    /\ (lastOp'.op = "updateFileContent" /\ ~hasFile(cache, lastOp'.path))
          => /\ cache' = cache
             /\ heap' = heap
             /\ ~hasFile(cache', lastOp'.path)
             /\ getFile(cache', lastOp'.path) = Null
    /\ (lastOp'.op = "batchUpdateFileContent")
          => /\ cache' = cache
             /\ \A path \in Paths : hasFile(cache', path) = hasFile(cache, path)
             /\ \A path \in Paths : getFile(cache', path) = getFile(cache, path)

\* C25: updateFileContent and batchUpdateFileContent for a path that has no
\* record leave the cache and every record unchanged: no entry is created,
\* hasFile(path) stays false and getFile(path) stays null.
C25_PatchOfMissingPathIsNoOp ==
    []PatchOfMissingPathChangesNoRecord /\ [][PatchCreatesNoEntry]_vars

\* updateFileContent was called for x/b.md on a cache that holds a.md only:
\* x/b.md has no entry, and the record of a.md reads as it was loaded
C25_Witness ==
    /\ lastOp = Op("updateFileContent", "x/b.md", "-")
    /\ getAllFilesWithPaths(cache) = <<[path |-> "a.md", data |-> "o1"]>>
    /\ ~hasFile(cache, "x/b.md")
    /\ getFile(cache, "x/b.md") = Null
    /\ heap = MirrorHeap

\* ---------------------------------------------------------------------------
\* Content patches and the records of other paths
\* ---------------------------------------------------------------------------
\* What getFile(path) returns, read field by field; null when there is no record.
FieldsOf(h, c, path) == IF hasFile(c, path) THEN h[getFile(c, path)] ELSE Null

\* C26: in every reachable state of the cache, updateFileContent(p, patch)
\* leaves the fields of what getFile(q) returns unchanged for every path q
\* other than p, also when the same record object is held under p and q.
C26_AsStated ==
    \A p \in Paths : \A updates \in Patches : \A q \in Paths \ {p} :
        hasFile(cache, q)
            => (FieldsOf(updateFileContent(heap, cache, p, updates), cache, q)
                    = FieldsOf(heap, cache, q))

\* ---------------------------------------------------------------------------
\* Paths and names of the nodes of a built tag tree
\* ---------------------------------------------------------------------------
\* C27: in every built tree, for every node c held in the children of a node
\* p, c.path is p.path followed by '/' and c.name, and the path of every root
\* is its name, also when the tags under one parent are written in different
\* letter case in different records.
C27_AsStated ==
    \A patterns \in BuildPatterns :
        LET t == buildTagTreeFromDatabase(heap, cache, patterns)
        IN  /\ \A root \in RootsOf(t) : NodeOf(t, root).path = NodeOf(t, root).name
            /\ \A p \in MapKeys(t.nodes) : \A c \in ChildrenOf(t, p) :
                  NodeOf(t, c).path = NodeOf(t, p).path \o <<"/">> \o NodeOf(t, c).name

\* ---------------------------------------------------------------------------
\* Looking nodes up in a built tree
\* ---------------------------------------------------------------------------
\* The tag paths handed to findTagNode: paths of nodes as the build spells
\* them, in other letter case, with a leading '#', and paths of no node.
FindPaths ==
    {<<"p">>, <<"P">>, <<"#", "p">>, <<"#", "P">>,
     <<"p", "/", "s">>, <<"P", "/", "s">>, <<"p", "/", "S">>, <<"#", "P", "/", "S">>,
     <<"p", "/", "s", "/", "u">>, <<"#", "P", "/", "S", "/", "U">>,
     <<"P", "/", "S", "/", "v">>, <<"p", "/", "s", "/", "V">>,
     <<"q">>, <<"#", "Q">>,
     <<"s">>, <<"u">>, <<"p", "/">>, <<"p", "/", "s", "/", "u", "/", "w">>, <<"z">>, <<>>}

FindTagNode(tagPath) ==
    /\ foundNode' = [called |-> TRUE, t |-> tagTree, tagPath |-> tagPath,
                     result |-> findTagNode(tagTree, tagPath)]
    /\ lastOp' = Op("findTagNode", "-", "-")
    /\ UNCHANGED <<heap, cache, store, lastWrite, tagTree, oldTagTree, noteCountCache,
                   matched, filtered, hub, items>>

NextFind ==
    \/ Build(NoPatterns)
    \/ \E tagPath \in FindPaths : FindTagNode(tagPath)

\* The records with nested tags, in both letter cases, with and without '#'.
FindHeap == [r \in {"t1", "t2", "t7", "t8"} |-> BuildHeap[r]]

InitFind ==
    /\ heap = FindHeap
    /\ cache \in {initialize(NewCache, filesWithPaths) : filesWithPaths \in BulkLoads}
    /\ store = <<>>
    /\ lastWrite = NothingWritten
    /\ tagTree = NoTagTree
    /\ oldTagTree = NoTagTree
    /\ noteCountCache = NullNoteCountCache
    /\ matched = NoCall
    /\ filtered = NoCall
    /\ foundNode = NoCall
    /\ hub = NewHub
    /\ items = NoItems
    /\ lastOp = Op("new", "-", "-")

SpecFind == InitFind /\ [][NextFind]_vars

\* A path with its letters in upper case.
Raised(str) ==
    [i \in 1..Len(str) |->
        IF \E n \in 1..Len(LowerCase) : LowerCase[n] = str[i]
        THEN UpperCase[CHOOSE n \in 1..Len(LowerCase) : LowerCase[n] = str[i]]
        ELSE str[i]]

\* C28: for every node n reachable in a built tree, findTagNode(tree, n.path)
\* returns n itself, also when the path asked for is written in another letter
\* case or with a leading '#'; for a path that has no node in the tree it
\* returns null.
C28_FindTagNodeReturnsTheNode ==
    /\ \A n \in Reached(tagTree, RootsOf(tagTree)) :
          \A tagPath \in {NodeOf(tagTree, n).path, Folded(NodeOf(tagTree, n).path),
                          Raised(NodeOf(tagTree, n).path),
                          <<"#">> \o NodeOf(tagTree, n).path,
                          <<"#">> \o Raised(NodeOf(tagTree, n).path)} :
              findTagNode(tagTree, tagPath) = NodeRef(n)
    /\ \A tagPath \in FindPaths :
          (\A n \in Reached(tagTree, RootsOf(tagTree)) :
                Folded(NodeOf(tagTree, n).path) # Folded(Unmarked(tagPath)))
              => (findTagNode(tagTree, tagPath) = NullNode)
    /\ foundNode.called =>
          LET asked == Folded(Unmarked(foundNode.tagPath))
              nodes == Reached(foundNode.t, RootsOf(foundNode.t))
          IN  IF \E n \in nodes : Folded(NodeOf(foundNode.t, n).path) = asked
              THEN /\ ~foundNode.result.isNull
                   /\ foundNode.result.node \in nodes
                   /\ Folded(NodeOf(foundNode.t, foundNode.result.node).path) = asked
              ELSE foundNode.result = NullNode

\* in the tree built from a.md tagged #P and P/s and x/b.md tagged p/s/u,
\* findTagNode("#P/S/U") returned the node whose path reads p/s/u, and the
\* tree has no node for "s"
C28_Witness ==
    /\ lastOp.op = "findTagNode"
    /\ getFile(cache, "a.md") = "t1"
    /\ getFile(cache, "x/b.md") = "t7"
    /\ foundNode.t = tagTree
    /\ foundNode.tagPath = <<"#", "P", "/", "S", "/", "U">>
    /\ ~foundNode.result.isNull
    /\ NodeOf(tagTree, foundNode.result.node).path = <<"p", "/", "s", "/", "u">>
    /\ NodeOf(tagTree, foundNode.result.node).notesWithTag = {"x/b.md"}
    /\ findTagNode(tagTree, <<"s">>) = NullNode

\* ---------------------------------------------------------------------------
\* Every scanned record is accounted for
\* ---------------------------------------------------------------------------
\* The distinct files in notesWithTag of the nodes reached from the returned tree.
FilesInTree(t) == UNION {FilesUnder(t, root) : root \in RootsOf(t)}

\* C29: after a build with no excluded folder patterns, untagged plus the
\* number of distinct file paths in notesWithTag of the nodes reachable from
\* the returned tree is the number of records of the cache whose tags is not
\* null: each of them is counted once, as untagged or as a tagged file.
C29_EveryScannedRecordCountedOnce ==
    LET t == buildTagTreeFromDatabase(heap, cache, NoPatterns)
        extracted == {p \in MapKeys(cache.memoryMap) : ~heap[getFile(cache, p)].tags.isNull}
    IN  /\ t.untagged + Cardinality(FilesInTree(t)) = Cardinality(extracted)
        /\ FilesInTree(t) \subseteq extracted
        /\ t.untagged = Cardinality(extracted \ FilesInTree(t))

\* a.md has tags [] and x/b.md is tagged #P and P/s: untagged is 1, the tree
\* holds x/b.md at two nodes and counts it once, and both records are extracted
C29_Witness ==
    /\ lastOp.op = "buildTagTreeFromDatabase"
    /\ getFile(cache, "a.md") = "t3"
    /\ getFile(cache, "x/b.md") = "t1"
    /\ tagTree.untagged = 1
    /\ NodeOf(tagTree, <<"p">>).notesWithTag = {"x/b.md"}
    /\ NodeOf(tagTree, <<"p", "/", "s">>).notesWithTag = {"x/b.md"}
    /\ FilesInTree(tagTree) = {"x/b.md"}

\* ---------------------------------------------------------------------------
\* The elements of a pattern list
\* ---------------------------------------------------------------------------
\* The elements of a pattern list, trimmed, without the empty ones.
ElementsOf(patterns) == SelectSeq(TrimEach(patterns), LAMBDA pattern : Len(pattern) > 0)

\* C30: filterTagTree and excludeFromTagTree apply each element of the pattern
\* list as one pattern: the patterns matched against the node paths are the
\* elements of the list after trimming, and an element that holds a comma is
\* matched as a single pattern.
C30_AsStated ==
    (filtered.called /\ filtered.patterns # <<>>)
        => /\ Range(PatternsOf(filtered.patterns)) = Range(ElementsOf(filtered.patterns))
           /\ filtered.result =
                IF filtered.op = "filterTagTree"
                THEN FilterEntries(filtered.t, filtered.t.tree,
                                   ElementsOf(filtered.patterns), <<>>)
                ELSE ExcludeEntries(filtered.t, filtered.t.tree,
                                    ElementsOf(filtered.patterns), <<>>)

====
